---- MODULE Spec2Model ----
(***************************************************************************)
(* Support-ticket service of homework-2: the keyword classification        *)
(* engine (services/classificationService.js), the ticket store            *)
(* (models/ticket.js), the validator (validators/ticketValidator.js), the  *)
(* format parsers and the routes of routes/tickets.js.                     *)
(*                                                                         *)
(* Strings.  A JavaScript string is modelled as a sequence of phrases;     *)
(* its content is the characters of the phrases joined by single spaces    *)
(* (Content).  Chars gives the characters of every phrase and of every     *)
(* rule keyword, so that String.prototype.includes is a real substring     *)
(* test on characters and toLowerCase a real case mapping.                 *)
(*                                                                         *)
(* Numbers.  A confidence is kept as an exact fraction <<num, den>> until  *)
(* toFixed(2) turns it into an integer number of hundredths.               *)
(***************************************************************************)
EXTENDS Integers, Sequences, FiniteSets, TLC

VARIABLES
    CLASSIFICATION_RULES,   \* the category rule table (module constant object)
    PRIORITY_KEYWORDS,      \* the priority trigger table (module constant object)
    ticketsStorage,         \* the Map of models/ticket.js, in insertion order
    uuidCounter,            \* number of ids randomUUID() has handed out
    clock,                  \* the value new Date() reads
    request,                \* the call being served
    response,               \* what it returned
    calls,                  \* the classify calls made while serving it
    observed                \* one earlier classify call, kept for comparison

vars == <<CLASSIFICATION_RULES, PRIORITY_KEYWORDS, ticketsStorage, uuidCounter,
          clock, request, response, calls, observed>>

(***************************************************************************)
(* Bounds of the model.                                                    *)
(***************************************************************************)
MaxPhrases == 2     \* phrases in a description of the classification corpus
MaxTickets == 2     \* tickets ever created in one behaviour
MaxClock == 1       \* ticks of the clock
MaxInFlight == 3    \* requests received in one behaviour of concurrent requests
MaxBatch == 2       \* records in an import payload

(***************************************************************************)
(* Characters of the phrases and keywords.                                 *)
(***************************************************************************)
Chars ==
    ("login" :> <<"l","o","g","i","n">>)
 @@ ("password" :> <<"p","a","s","s","w","o","r","d">>)
 @@ ("2fa" :> <<"2","f","a">>)
 @@ ("two factor" :> <<"t","w","o"," ","f","a","c","t","o","r">>)
 @@ ("two-factor" :> <<"t","w","o","-","f","a","c","t","o","r">>)
 @@ ("access" :> <<"a","c","c","e","s","s">>)
 @@ ("locked" :> <<"l","o","c","k","e","d">>)
 @@ ("locked out" :> <<"l","o","c","k","e","d"," ","o","u","t">>)
 @@ ("can't login" :> <<"c","a","n","'","t"," ","l","o","g","i","n">>)
 @@ ("cannot login" :> <<"c","a","n","n","o","t"," ","l","o","g","i","n">>)
 @@ ("reset password" :> <<"r","e","s","e","t"," ","p","a","s","s","w","o","r","d">>)
 @@ ("account locked" :> <<"a","c","c","o","u","n","t"," ","l","o","c","k","e","d">>)
 @@ ("error" :> <<"e","r","r","o","r">>)
 @@ ("crash" :> <<"c","r","a","s","h">>)
 @@ ("bug" :> <<"b","u","g">>)
 @@ ("broken" :> <<"b","r","o","k","e","n">>)
 @@ ("not working" :> <<"n","o","t"," ","w","o","r","k","i","n","g">>)
 @@ ("doesn't work" :> <<"d","o","e","s","n","'","t"," ","w","o","r","k">>)
 @@ ("fails" :> <<"f","a","i","l","s">>)
 @@ ("failure" :> <<"f","a","i","l","u","r","e">>)
 @@ ("issue" :> <<"i","s","s","u","e">>)
 @@ ("problem" :> <<"p","r","o","b","l","e","m">>)
 @@ ("glitch" :> <<"g","l","i","t","c","h">>)
 @@ ("malfunction" :> <<"m","a","l","f","u","n","c","t","i","o","n">>)
 @@ ("payment" :> <<"p","a","y","m","e","n","t">>)
 @@ ("invoice" :> <<"i","n","v","o","i","c","e">>)
 @@ ("billing" :> <<"b","i","l","l","i","n","g">>)
 @@ ("refund" :> <<"r","e","f","u","n","d">>)
 @@ ("charge" :> <<"c","h","a","r","g","e">>)
 @@ ("subscription" :> <<"s","u","b","s","c","r","i","p","t","i","o","n">>)
 @@ ("pricing" :> <<"p","r","i","c","i","n","g">>)
 @@ ("cost" :> <<"c","o","s","t">>)
 @@ ("credit card" :> <<"c","r","e","d","i","t"," ","c","a","r","d">>)
 @@ ("bill" :> <<"b","i","l","l">>)
 @@ ("discount" :> <<"d","i","s","c","o","u","n","t">>)
 @@ ("feature" :> <<"f","e","a","t","u","r","e">>)
 @@ ("add" :> <<"a","d","d">>)
 @@ ("request" :> <<"r","e","q","u","e","s","t">>)
 @@ ("suggestion" :> <<"s","u","g","g","e","s","t","i","o","n">>)
 @@ ("idea" :> <<"i","d","e","a">>)
 @@ ("enhancement" :> <<"e","n","h","a","n","c","e","m","e","n","t">>)
 @@ ("would like" :> <<"w","o","u","l","d"," ","l","i","k","e">>)
 @@ ("would be nice" :> <<"w","o","u","l","d"," ","b","e"," ","n","i","c","e">>)
 @@ ("could we" :> <<"c","o","u","l","d"," ","w","e">>)
 @@ ("can we" :> <<"c","a","n"," ","w","e">>)
 @@ ("defect" :> <<"d","e","f","e","c","t">>)
 @@ ("reproduction" :> <<"r","e","p","r","o","d","u","c","t","i","o","n">>)
 @@ ("steps to reproduce" :> <<"s","t","e","p","s"," ","t","o"," ","r","e","p","r","o","d","u","c","e">>)
 @@ ("repro" :> <<"r","e","p","r","o">>)
 @@ ("reproducible" :> <<"r","e","p","r","o","d","u","c","i","b","l","e">>)
 @@ ("consistently" :> <<"c","o","n","s","i","s","t","e","n","t","l","y">>)
 @@ ("happens every time" :> <<"h","a","p","p","e","n","s"," ","e","v","e","r","y"," ","t","i","m","e">>)
 @@ ("can't access" :> <<"c","a","n","'","t"," ","a","c","c","e","s","s">>)
 @@ ("critical" :> <<"c","r","i","t","i","c","a","l">>)
 @@ ("production down" :> <<"p","r","o","d","u","c","t","i","o","n"," ","d","o","w","n">>)
 @@ ("production issue" :> <<"p","r","o","d","u","c","t","i","o","n"," ","i","s","s","u","e">>)
 @@ ("security" :> <<"s","e","c","u","r","i","t","y">>)
 @@ ("breach" :> <<"b","r","e","a","c","h">>)
 @@ ("outage" :> <<"o","u","t","a","g","e">>)
 @@ ("down" :> <<"d","o","w","n">>)
 @@ ("offline" :> <<"o","f","f","l","i","n","e">>)
 @@ ("urgent" :> <<"u","r","g","e","n","t">>)
 @@ ("emergency" :> <<"e","m","e","r","g","e","n","c","y">>)
 @@ ("important" :> <<"i","m","p","o","r","t","a","n","t">>)
 @@ ("blocking" :> <<"b","l","o","c","k","i","n","g">>)
 @@ ("asap" :> <<"a","s","a","p">>)
 @@ ("as soon as possible" :> <<"a","s"," ","s","o","o","n"," ","a","s"," ","p","o","s","s","i","b","l","e">>)
 @@ ("stuck" :> <<"s","t","u","c","k">>)
 @@ ("cannot proceed" :> <<"c","a","n","n","o","t"," ","p","r","o","c","e","e","d">>)
 @@ ("blocked" :> <<"b","l","o","c","k","e","d">>)
 @@ ("minor" :> <<"m","i","n","o","r">>)
 @@ ("cosmetic" :> <<"c","o","s","m","e","t","i","c">>)
 @@ ("nice to have" :> <<"n","i","c","e"," ","t","o"," ","h","a","v","e">>)
 @@ ("feature request" :> <<"f","e","a","t","u","r","e"," ","r","e","q","u","e","s","t">>)
 @@ ("Bug report" :> <<"B","u","g"," ","r","e","p","o","r","t">>)
 @@ ("Can't access my account" :> <<"C","a","n","'","t"," ","a","c","c","e","s","s"," ","m","y"," ","a","c","c","o","u","n","t">>)
 @@ ("Feature request: dark mode" :> <<"F","e","a","t","u","r","e"," ","r","e","q","u","e","s","t",":"," ","d","a","r","k"," ","m","o","d","e">>)
 @@ ("Minor cosmetic issue" :> <<"M","i","n","o","r"," ","c","o","s","m","e","t","i","c"," ","i","s","s","u","e">>)
 @@ ("Account locked out, cannot login, reset password" :> <<"A","c","c","o","u","n","t"," ","l","o","c","k","e","d"," ","o","u","t",","," ","c","a","n","n","o","t"," ","l","o","g","i","n",","," ","r","e","s","e","t"," ","p","a","s","s","w","o","r","d">>)
 @@ ("Critical production down" :> <<"C","r","i","t","i","c","a","l"," ","p","r","o","d","u","c","t","i","o","n"," ","d","o","w","n">>)
 @@ ("login password" :> <<"l","o","g","i","n"," ","p","a","s","s","w","o","r","d">>)
 @@ ("out" :> <<"o","u","t">>)
 @@ ("billing refund" :> <<"b","i","l","l","i","n","g"," ","r","e","f","u","n","d">>)
 @@ ("hello" :> <<"h","e","l","l","o">>)
 @@ ("I cannot login, this is critical" :> <<"I"," ","c","a","n","n","o","t"," ","l","o","g","i","n",","," ","t","h","i","s"," ","i","s"," ","c","r","i","t","i","c","a","l">>)
 @@ ("It would be nice to have a dark mode option" :> <<"I","t"," ","w","o","u","l","d"," ","b","e"," ","n","i","c","e"," ","t","o"," ","h","a","v","e"," ","a"," ","d","a","r","k"," ","m","o","d","e"," ","o","p","t","i","o","n">>)
 @@ ("Too short" :> <<"T","o","o"," ","s","h","o","r","t">>)
 @@ ("Hello" :> <<"H","e","l","l","o">>)
 @@ ("Thank you for the quick reply" :> <<"T","h","a","n","k"," ","y","o","u"," ","f","o","r"," ","t","h","e"," ","q","u","i","c","k"," ","r","e","p","l","y">>)
 @@ ("CUST-001" :> <<"C","U","S","T","-","0","0","1">>)
 @@ ("CUST-002" :> <<"C","U","S","T","-","0","0","2">>)
 @@ ("Test User" :> <<"T","e","s","t"," ","U","s","e","r">>)
 @@ ("User Two" :> <<"U","s","e","r"," ","T","w","o">>)
 @@ ("test@example.com" :> <<"t","e","s","t","@","e","x","a","m","p","l","e",".","c","o","m">>)
 @@ ("invalid-email" :> <<"i","n","v","a","l","i","d","-","e","m","a","i","l">>)

UpperCase == <<"A","B","C","D","E","F","G","H","I","J","K","L","M",
               "N","O","P","Q","R","S","T","U","V","W","X","Y","Z">>
LowerCase == <<"a","b","c","d","e","f","g","h","i","j","k","l","m",
               "n","o","p","q","r","s","t","u","v","w","x","y","z">>

\* String.prototype.toLowerCase on a character sequence.
ToLowerCase(cs) ==
    [i \in 1..Len(cs) |->
        IF \E k \in 1..Len(UpperCase) : UpperCase[k] = cs[i]
        THEN LowerCase[CHOOSE k \in 1..Len(UpperCase) : UpperCase[k] = cs[i]]
        ELSE cs[i]]

\* The characters of a string: its phrases joined by single spaces.
RECURSIVE Content(_)
Content(str) ==
    IF Len(str) = 0 THEN <<>>
    ELSE IF Len(str) = 1 THEN Chars[str[1]]
    ELSE Chars[str[1]] \o <<" ">> \o Content(Tail(str))

\* String.prototype.includes(keyword) on character sequences.
Includes(text, keyword) ==
    \E i \in 0..(Len(text) - Len(keyword)) :
        \A j \in 1..Len(keyword) : text[i + j] = keyword[j]

Elements(seq) == { seq[i] : i \in 1..Len(seq) }

Min(a, b) == IF a <= b THEN a ELSE b
Max(a, b) == IF a >= b THEN a ELSE b

\* Math.min(n / d, 1) as a fraction.
MinWithOne(n, d) == IF n >= d THEN <<1, 1>> ELSE <<n, d>>

\* Mutant: the sum is not halved.
Mean_NotHalved(a, b) == <<a[1] * b[2] + b[1] * a[2], a[2] * b[2]>>

\* (a + b) / 2 of two fractions.
Mean(a, b) == <<a[1] * b[2] + b[1] * a[2], 2 * a[2] * b[2]>>

\* parseFloat(x.toFixed(2)): x rounded to the nearest hundredth, in hundredths.
ToFixed2(x) == (200 * x[1] + x[2]) \div (2 * x[2])

\* Mutant: an array push, which keeps duplicates.
SetAdd_Push(set, x) == Append(set, x)

\* Set.prototype.add on a Set kept in insertion order.
SetAdd(set, x) ==
    IF \E i \in 1..Len(set) : set[i] = x THEN set ELSE Append(set, x)

\* Array.prototype.indexOf (0-based, -1 when absent).
IndexOf(arr, x) ==
    IF \E i \in 1..Len(arr) : arr[i] = x
    THEN (CHOOSE i \in 1..Len(arr) : arr[i] = x /\ \A j \in 1..(i - 1) : arr[j] # x) - 1
    ELSE -1

(***************************************************************************)
(* The rule tables.  An object is a sequence of entries in key order.      *)
(***************************************************************************)
ClassificationRulesTable ==
    << [category |-> "account_access",
        keywords |-> <<"login", "password", "2fa", "two factor", "two-factor",
                       "access", "locked", "locked out", "can't login",
                       "cannot login", "reset password", "account locked">>,
        priority_boost |-> [urgent |-> 5, high |-> 3, medium |-> 0, low |-> 0]],
       [category |-> "technical_issue",
        keywords |-> <<"error", "crash", "bug", "broken", "not working",
                       "doesn't work", "fails", "failure", "issue", "problem",
                       "glitch", "malfunction">>,
        priority_boost |-> [urgent |-> 3, high |-> 2, medium |-> 0, low |-> 0]],
       [category |-> "billing_question",
        keywords |-> <<"payment", "invoice", "billing", "refund", "charge",
                       "subscription", "pricing", "cost", "credit card", "bill",
                       "discount">>,
        priority_boost |-> [urgent |-> 2, high |-> 1, medium |-> 0, low |-> 0]],
       [category |-> "feature_request",
        keywords |-> <<"feature", "add", "request", "suggestion", "idea",
                       "enhancement", "would like", "would be nice", "could we",
                       "can we">>,
        priority_boost |-> [urgent |-> 0, high |-> 0, medium |-> 0, low |-> 2]],
       [category |-> "bug_report",
        keywords |-> <<"bug", "defect", "reproduction", "steps to reproduce",
                       "repro", "reproducible", "consistently",
                       "happens every time">>,
        priority_boost |-> [urgent |-> 4, high |-> 2, medium |-> 0, low |-> 0]] >>

PriorityKeywordsTable ==
    << [level |-> "urgent",
        keywords |-> <<"can't access", "critical", "production down",
                       "production issue", "security", "breach", "outage",
                       "down", "offline", "urgent", "emergency">>],
       [level |-> "high",
        keywords |-> <<"important", "blocking", "asap", "as soon as possible",
                       "stuck", "cannot proceed", "blocked">>],
       [level |-> "medium", keywords |-> <<>>],
       [level |-> "low",
        keywords |-> <<"minor", "cosmetic", "suggestion", "enhancement",
                       "nice to have", "feature request">>] >>

(***************************************************************************)
(* The records and patches the requests of a behaviour carry.              *)
(***************************************************************************)
ValidRecord1 ==
    [customer_id |-> <<"CUST-001">>,
     customer_email |-> <<"test@example.com">>,
     customer_name |-> <<"Test User">>,
     subject |-> <<"Can't access my account">>,
     description |-> <<"I cannot login, this is critical">>]

ValidRecord2 ==
    [customer_id |-> <<"CUST-002">>,
     customer_email |-> <<"test@example.com">>,
     customer_name |-> <<"User Two">>,
     subject |-> <<"Feature request: dark mode">>,
     description |-> <<"It would be nice to have a dark mode option">>,
     category |-> "billing_question",
     priority |-> "high"]

InvalidRecord ==
    [customer_id |-> <<"CUST-002">>,
     customer_email |-> <<"invalid-email">>,
     customer_name |-> <<"User Two">>,
     description |-> <<"Too short">>]

RawRecords == {ValidRecord1, ValidRecord2, InvalidRecord}

\* Bodies of PUT /tickets/:id.
Patches ==
    { [category |-> "other", priority |-> "low",
       classification |-> [manual_override |-> TRUE]],
      [priority |-> "critical"] }

(***************************************************************************)
(* text.includes(keyword), computed once for the texts of these records.   *)
(***************************************************************************)
AllKeywords ==
    UNION ({ Elements(ClassificationRulesTable[c].keywords) :
                c \in 1..Len(ClassificationRulesTable) }
           \cup { Elements(PriorityKeywordsTable[l].keywords) :
                    l \in 1..Len(PriorityKeywordsTable) })

KnownTexts ==
    { ToLowerCase(Content(s) \o <<" ">> \o Content(d)) :
        s \in { r.subject : r \in { x \in RawRecords \cup Patches : "subject" \in DOMAIN x } },
        d \in { r.description : r \in { x \in RawRecords : "description" \in DOMAIN x } } }

IncludesTable ==
    [text \in KnownTexts |-> { k \in AllKeywords : Includes(text, Chars[k]) }]

\* text.includes(keyword) for a configured keyword.
TextIncludes(text, keyword) ==
    IF text \in DOMAIN IncludesTable
    THEN keyword \in IncludesTable[text]
    ELSE Includes(text, Chars[keyword])

(***************************************************************************)
(* ClassificationService.classify                                          *)
(***************************************************************************)
\* `${ticket.subject} ${ticket.description}`.toLowerCase()
TicketText(ticket) ==
    ToLowerCase(Content(ticket.subject) \o <<" ">> \o Content(ticket.description))

\* rules.keywords.forEach: the score of one category and the found keywords.
RECURSIVE ScanKeywords(_, _, _, _, _)
ScanKeywords(text, keywords, i, score, foundKeywords) ==
    IF i > Len(keywords) THEN [score |-> score, foundKeywords |-> foundKeywords]
    ELSE IF TextIncludes(text, keywords[i])
         THEN ScanKeywords(text, keywords, i + 1, score + 1,
                           SetAdd(foundKeywords, keywords[i]))
         ELSE ScanKeywords(text, keywords, i + 1, score, foundKeywords)

\* Mutant: foundKeywords is not a new Set but one kept across calls, here the
\* keywords left on the first stored ticket by its last classification.
NewSet_KeptAcrossCalls ==
    IF Len(ticketsStorage) > 0
       /\ "keywords_found" \in DOMAIN ticketsStorage[1].classification
    THEN ticketsStorage[1].classification.keywords_found
    ELSE <<>>

\* new Set()
NewSet == <<>>

\* Object.entries(CLASSIFICATION_RULES).forEach: categoryScores in key order.
RECURSIVE ScanCategories(_, _, _, _, _)
ScanCategories(text, rules, c, categoryScores, foundKeywords) ==
    IF c > Len(rules)
    THEN [categoryScores |-> categoryScores, foundKeywords |-> foundKeywords]
    ELSE LET r == ScanKeywords(text, rules[c].keywords, 1, 0, foundKeywords)
         IN  ScanCategories(text, rules, c + 1,
                 Append(categoryScores,
                        [category |-> rules[c].category, score |-> r.score]),
                 r.foundKeywords)

\* Mutant: `score >= maxScore`, so that a later category wins a tie.
RECURSIVE PickCategory_LaterWinsTies(_, _, _, _)
PickCategory_LaterWinsTies(categoryScores, c, category, maxScore) ==
    IF c > Len(categoryScores) THEN [category |-> category, maxScore |-> maxScore]
    ELSE IF categoryScores[c].score >= maxScore
         THEN PickCategory_LaterWinsTies(categoryScores, c + 1,
                           categoryScores[c].category, categoryScores[c].score)
         ELSE PickCategory_LaterWinsTies(categoryScores, c + 1, category, maxScore)

\* Mutant: a higher score raises maxScore, but the first category that matched stays.
RECURSIVE PickCategory_FirstMatchStays(_, _, _, _)
PickCategory_FirstMatchStays(categoryScores, c, category, maxScore) ==
    IF c > Len(categoryScores) THEN [category |-> category, maxScore |-> maxScore]
    ELSE IF categoryScores[c].score > maxScore
         THEN PickCategory_FirstMatchStays(categoryScores, c + 1,
                           IF category = "other" THEN categoryScores[c].category
                           ELSE category,
                           categoryScores[c].score)
         ELSE PickCategory_FirstMatchStays(categoryScores, c + 1, category, maxScore)

\* Object.entries(categoryScores).forEach: the first key with the highest score.
RECURSIVE PickCategory(_, _, _, _)
PickCategory(categoryScores, c, category, maxScore) ==
    IF c > Len(categoryScores) THEN [category |-> category, maxScore |-> maxScore]
    ELSE IF categoryScores[c].score > maxScore
         THEN PickCategory(categoryScores, c + 1,
                           categoryScores[c].category, categoryScores[c].score)
         ELSE PickCategory(categoryScores, c + 1, category, maxScore)

\* Object.keys(PRIORITY_KEYWORDS)
PriorityKeys(table) == [i \in 1..Len(table) |-> table[i].level]

\* keywords.forEach of one level: Math.max(priorityScore, indexOf(level) + 1).
RECURSIVE ScanLevel(_, _, _, _, _, _)
ScanLevel(text, table, level, keywords, i, priorityScore) ==
    IF i > Len(keywords) THEN priorityScore
    ELSE IF TextIncludes(text, keywords[i])
         THEN ScanLevel(text, table, level, keywords, i + 1,
                        Max(priorityScore, IndexOf(PriorityKeys(table), level) + 1))
         ELSE ScanLevel(text, table, level, keywords, i + 1, priorityScore)

\* Object.entries(PRIORITY_KEYWORDS).forEach
RECURSIVE ScanPriorities(_, _, _, _)
ScanPriorities(text, table, l, priorityScore) ==
    IF l > Len(table) THEN priorityScore
    ELSE ScanPriorities(text, table, l + 1,
             ScanLevel(text, table, table[l].level, table[l].keywords, 1,
                       priorityScore))

\* Object.keys(PRIORITY_KEYWORDS)[Object.keys(PRIORITY_KEYWORDS).length - priorityScore]
PriorityOfScore(table, priorityScore) ==
    PriorityKeys(table)[(Len(table) - priorityScore) + 1]

\* Mutant: no confidence at all when nothing matched.
CategoryConfidence_ZeroFallback(maxScore) ==
    IF maxScore > 0 THEN MinWithOne(maxScore, 5) ELSE <<0, 1>>

\* Mutant: the Math.min clamp is missing.
CategoryConfidence_Unclamped(maxScore) ==
    IF maxScore > 0 THEN <<maxScore, 5>> ELSE <<3, 10>>

\* maxScore > 0 ? Math.min(maxScore / 5, 1) : 0.3
CategoryConfidence(maxScore) ==
    IF maxScore > 0 THEN MinWithOne(maxScore, 5) ELSE <<3, 10>>

\* Mutant: the score is divided by the number of levels.
PriorityConfidence_OverLevels(priorityScore) ==
    IF priorityScore > 0 THEN MinWithOne(priorityScore, 4) ELSE <<1, 2>>

\* priorityScore > 0 ? Math.min(priorityScore / 3, 1) : 0.5
PriorityConfidence(priorityScore) ==
    IF priorityScore > 0 THEN MinWithOne(priorityScore, 3) ELSE <<1, 2>>

classify(ticket) ==
    LET text == TicketText(ticket)
        scan == ScanCategories(text, CLASSIFICATION_RULES, 1, <<>>, NewSet)
        pick == PickCategory(scan.categoryScores, 1, "other", 0)
        category == pick.category
        maxScore == pick.maxScore
        categoryConfidence == CategoryConfidence(maxScore)
        priorityScore == ScanPriorities(text, PRIORITY_KEYWORDS, 1, 0)
        priority ==
            IF priorityScore > 0
            THEN PriorityOfScore(PRIORITY_KEYWORDS, priorityScore)
            ELSE "medium"
        priorityConfidence == PriorityConfidence(priorityScore)
    IN  [category |-> category,
         priority |-> priority,
         category_confidence |-> ToFixed2(categoryConfidence),
         priority_confidence |-> ToFixed2(priorityConfidence),
         overall_confidence |-> ToFixed2(Mean(categoryConfidence, priorityConfidence)),
         reasoning |->
            [category_reasoning |->
                IF maxScore > 0
                THEN [template |-> "Matched ${maxScore} keyword(s) for ${category}",
                      maxScore |-> maxScore, category |-> category]
                ELSE [template |-> "No keywords matched, assigned default category"],
             priority_reasoning |->
                IF priorityScore > 0
                THEN [template |-> "Found urgent/important keywords indicating ${priority} priority",
                      priority |-> priority]
                ELSE [template |-> "No priority indicators found, assigned default medium priority"]],
         keywords_found |-> scan.foundKeywords]

(***************************************************************************)
(* Direct calls of classify on tickets of a corpus (SpecClassify).         *)
(***************************************************************************)
ClassifySubjects ==
    { <<>>,
      <<"Bug report">>,
      <<"Can't access my account">>,
      <<"Feature request: dark mode">>,
      <<"Minor cosmetic issue">>,
      <<"Account locked out, cannot login, reset password">> }

ClassifyPhrases ==
    { "Critical production down", "blocked", "login password", "locked", "out",
      "bug", "billing refund", "suggestion", "hello" }

ClassifyDescriptions == UNION { [1..n -> ClassifyPhrases] : n \in 0..MaxPhrases }

ClassifyTickets ==
    { [subject |-> s, description |-> d] :
        s \in ClassifySubjects, d \in ClassifyDescriptions }

NoObservation == [seen |-> FALSE]

InitClassify ==
    /\ CLASSIFICATION_RULES = ClassificationRulesTable
    /\ PRIORITY_KEYWORDS = PriorityKeywordsTable
    /\ ticketsStorage = <<>>
    /\ uuidCounter = 0
    /\ clock = 0
    /\ request \in { [op |-> "classify", ticket |-> t] : t \in ClassifyTickets }
    /\ response = [status |-> "pending"]
    /\ calls = <<>>
    /\ observed = NoObservation

\* ClassificationService.classify(ticket) called on the ticket of the request.
ClassifyCall ==
    /\ request.op = "classify"
    /\ response.status = "pending"
    /\ response' = [status |-> "returned", classification |-> classify(request.ticket)]
    /\ UNCHANGED <<CLASSIFICATION_RULES, PRIORITY_KEYWORDS, ticketsStorage,
                   uuidCounter, clock, request, calls, observed>>

NextClassify == ClassifyCall

SpecClassify == InitClassify /\ [][NextClassify]_vars

(***************************************************************************)
(* models/ticket.js                                                        *)
(***************************************************************************)
CATEGORIES == <<"account_access", "technical_issue", "billing_question",
                "feature_request", "bug_report", "other">>
PRIORITIES == <<"urgent", "high", "medium", "low">>
STATUSES == <<"new", "in_progress", "waiting_customer", "resolved", "closed">>

Null == [null |-> TRUE]     \* null where an object may stand
NullString == <<>>          \* null (or '') where a string may stand

Has(obj, key) == key \in DOMAIN obj

\* data.key || fallback
OrElse(obj, key, fallback) == IF Has(obj, key) THEN obj[key] ELSE fallback

\* { ...a, ...b }
Spread(a, b) ==
    [k \in (DOMAIN a) \cup (DOMAIN b) |-> IF k \in DOMAIN b THEN b[k] ELSE a[k]]

\* Mutant: the id is derived from the time of creation instead of randomUUID().
NewTicket_IdFromTime(data, id, now) ==
    [id |-> now + 1,
     customer_id |-> data.customer_id,
     customer_email |-> data.customer_email,
     customer_name |-> data.customer_name,
     subject |-> data.subject,
     description |-> data.description,
     category |-> OrElse(data, "category", "other"),
     priority |-> OrElse(data, "priority", "medium"),
     status |-> OrElse(data, "status", "new"),
     created_at |-> now,
     updated_at |-> now,
     resolved_at |-> NullString,
     assigned_to |-> NullString,
     tags |-> <<>>,
     metadata |-> [source |-> "api", browser |-> NullString, device_type |-> NullString],
     classification |-> Null]

\* new Ticket(data) with a fresh randomUUID() and the current time.
NewTicket(data, id, now) ==
    [id |-> id,
     customer_id |-> data.customer_id,
     customer_email |-> data.customer_email,
     customer_name |-> data.customer_name,
     subject |-> data.subject,
     description |-> data.description,
     category |-> OrElse(data, "category", "other"),
     priority |-> OrElse(data, "priority", "medium"),
     status |-> OrElse(data, "status", "new"),
     created_at |-> now,
     updated_at |-> now,
     resolved_at |-> NullString,
     assigned_to |-> NullString,
     tags |-> <<>>,
     metadata |-> [source |-> "api", browser |-> NullString, device_type |-> NullString],
     classification |-> Null]

TicketFields ==
    {"id", "customer_id", "customer_email", "customer_name", "subject",
     "description", "category", "priority", "status", "created_at", "updated_at",
     "resolved_at", "assigned_to", "tags", "metadata", "classification"}

\* ticketsStorage.get(id): the position of the entry, 0 when there is none.
IndexOfId(storage, id) ==
    IF \E i \in 1..Len(storage) : storage[i].id = id
    THEN CHOOSE i \in 1..Len(storage) : storage[i].id = id
    ELSE 0

\* Mutant: an id that is not stored finds the first stored ticket.
findById_FirstWhenMissing(storage, id) ==
    IF IndexOfId(storage, id) # 0 THEN storage[IndexOfId(storage, id)]
    ELSE IF Len(storage) > 0 THEN storage[1]
    ELSE [null |-> TRUE]

\* Ticket.findById
findById(storage, id) ==
    IF IndexOfId(storage, id) = 0 THEN Null ELSE storage[IndexOfId(storage, id)]

\* Ticket.create after the constructor: ticketsStorage.set(ticket.id, ticket)
MapSet(storage, ticket) ==
    IF IndexOfId(storage, ticket.id) = 0 THEN Append(storage, ticket)
    ELSE [storage EXCEPT ![IndexOfId(storage, ticket.id)] = ticket]

\* Mutant: Object.assign(ticket, { id, created_at, updated_at, ...data }).
Assigned_PatchWins(ticket, data, now) ==
    [k \in TicketFields |->
        IF k \in DOMAIN data THEN data[k]
        ELSE IF k = "updated_at" THEN now
        ELSE ticket[k]]

\* Object.assign(ticket, { ...data, id, created_at, updated_at }) of Ticket.update
Assigned(ticket, data, now) ==
    [k \in TicketFields |->
        IF k = "id" THEN ticket.id
        ELSE IF k = "created_at" THEN ticket.created_at
        ELSE IF k = "updated_at" THEN now
        ELSE IF k \in DOMAIN data THEN data[k]
        ELSE ticket[k]]

\* Ticket.update: the storage afterwards (unchanged when the id is not stored).
update(storage, id, data, now) ==
    IF IndexOfId(storage, id) = 0 THEN storage
    ELSE MapSet(storage, Assigned(storage[IndexOfId(storage, id)], data, now))

\* Ticket.update: the ticket it returns, null when the id is not stored.
updated(storage, id, data, now) ==
    IF IndexOfId(storage, id) = 0 THEN Null
    ELSE Assigned(storage[IndexOfId(storage, id)], data, now)

\* Ticket.delete
delete(storage, id) == SelectSeq(storage, LAMBDA t : t.id # id)

\* One filter of Ticket.findByFilter: applied when the filter is set and not ''.
Matches(ticket, filters, key, empty) ==
    (Has(filters, key) /\ filters[key] # empty) => ticket[key] = filters[key]

\* The search filter of Ticket.findByFilter.
MatchesSearch(ticket, filters) ==
    (Has(filters, "search") /\ filters.search # <<>>) =>
        \/ Includes(ToLowerCase(Content(ticket.subject)), ToLowerCase(Content(filters.search)))
        \/ Includes(ToLowerCase(Content(ticket.description)), ToLowerCase(Content(filters.search)))
        \/ Includes(ToLowerCase(Content(ticket.customer_name)), ToLowerCase(Content(filters.search)))

\* Ticket.findByFilter: the stored tickets, in insertion order, that pass every filter.
findByFilter(storage, filters) ==
    SelectSeq(storage, LAMBDA t :
        /\ Matches(t, filters, "category", "")
        /\ Matches(t, filters, "priority", "")
        /\ Matches(t, filters, "status", "")
        /\ Matches(t, filters, "customer_id", <<>>)
        /\ MatchesSearch(t, filters))

(***************************************************************************)
(* validators/ticketValidator.js                                           *)
(***************************************************************************)
StringLength(str) == Len(Content(str))

\* Joi.string().email(): one "@" with a name before it and a dotted domain after.
IsEmail(str) ==
    LET cs == Content(str)
        ats == { i \in 1..Len(cs) : cs[i] = "@" }
    IN  /\ Cardinality(ats) = 1
        /\ LET at == CHOOSE i \in ats : TRUE
           IN  /\ at > 1
               /\ \E d \in (at + 2)..(Len(cs) - 1) : cs[d] = "."
               /\ \A i \in 1..Len(cs) : cs[i] # " "

SchemaKeys ==
    <<"customer_id", "customer_email", "customer_name", "subject", "description",
      "category", "priority", "status", "assigned_to", "tags", "metadata">>

RequiredKeys ==
    {"customer_id", "customer_email", "customer_name", "subject", "description"}

SubjectMax == 200
DescriptionMin == 10
DescriptionMax == 2000

\* The errors Joi reports for one key of the schema.
KeyErrors(data, key, isCreation) ==
    IF ~Has(data, key)
    THEN IF isCreation /\ key \in RequiredKeys
         THEN << [field |-> key, message |-> "is required"] >>
         ELSE <<>>
    ELSE IF key \in {"customer_id", "customer_name"}
    THEN IF StringLength(data[key]) = 0
         THEN << [field |-> key, message |-> "is not allowed to be empty"] >>
         ELSE <<>>
    ELSE IF key = "customer_email"
    THEN IF StringLength(data[key]) = 0
         THEN << [field |-> key, message |-> "is not allowed to be empty"] >>
         ELSE IF ~IsEmail(data[key])
         THEN << [field |-> key, message |-> "customer_email must be a valid email"] >>
         ELSE <<>>
    ELSE IF key = "subject"
    THEN IF StringLength(data[key]) = 0
         THEN << [field |-> key, message |-> "is not allowed to be empty"] >>
         ELSE IF StringLength(data[key]) > SubjectMax
         THEN << [field |-> key, message |-> "subject must not exceed 200 characters"] >>
         ELSE <<>>
    ELSE IF key = "description"
    THEN IF StringLength(data[key]) = 0
         THEN << [field |-> key, message |-> "is not allowed to be empty"] >>
         ELSE IF StringLength(data[key]) < DescriptionMin
         THEN << [field |-> key, message |-> "description must be at least 10 characters"] >>
         ELSE IF StringLength(data[key]) > DescriptionMax
         THEN << [field |-> key, message |-> "description must not exceed 2000 characters"] >>
         ELSE <<>>
    ELSE IF key = "category"
    THEN IF data[key] \notin Elements(CATEGORIES)
         THEN << [field |-> key, message |-> "category must be one of"] >>
         ELSE <<>>
    ELSE IF key = "priority"
    THEN IF data[key] \notin Elements(PRIORITIES)
         THEN << [field |-> key, message |-> "priority must be one of"] >>
         ELSE <<>>
    ELSE IF key = "status"
    THEN IF data[key] \notin Elements(STATUSES)
         THEN << [field |-> key, message |-> "status must be one of"] >>
         ELSE <<>>
    ELSE <<>>

\* The keys of data the creation schema does not know ("is not allowed").
UnknownKeyErrors(data, isCreation) ==
    IF isCreation /\ (DOMAIN data) \ Elements(SchemaKeys) # {}
    THEN << [field |-> "unknown", message |-> "is not allowed"] >>
    ELSE <<>>

RECURSIVE SchemaErrors(_, _, _)
SchemaErrors(data, k, isCreation) ==
    IF k > Len(SchemaKeys) THEN UnknownKeyErrors(data, isCreation)
    ELSE KeyErrors(data, SchemaKeys[k], isCreation) \o SchemaErrors(data, k + 1, isCreation)

\* A record that is a string and no object: the '' of an empty XML element.
NonObject == [type |-> "string"]

\* Mutant: only the creation schema is applied; an update passes unchecked.
validateTicket_UpdateUnchecked(data, isCreation) ==
    LET Checked(errors) ==
            IF Len(errors) > 0
            THEN [valid |-> FALSE, errors |-> errors]
            ELSE [valid |-> TRUE, data |-> data]
    IN  Checked(IF ~isCreation THEN <<>>
                ELSE IF data = NonObject
                THEN << [field |-> "", message |-> "must be of type object"] >>
                ELSE SchemaErrors(data, 1, isCreation))

validateTicket(data, isCreation) ==
    LET Checked(errors) ==
            IF Len(errors) > 0
            THEN [valid |-> FALSE, errors |-> errors]
            ELSE [valid |-> TRUE, data |-> data]
    IN  Checked(IF data = NonObject
                THEN << [field |-> "", message |-> "must be of type object"] >>
                ELSE SchemaErrors(data, 1, isCreation))

\* Mutant: a failed row is reported but not counted.
RECURSIVE ValidateRows_FailedNotCounted(_, _, _)
ValidateRows_FailedNotCounted(data, index, results) ==
    LET Row(item, validation) ==
            IF validation.valid
            THEN ValidateRows_FailedNotCounted(data, index + 1,
                     [results EXCEPT !.successful = @ + 1,
                                     !.validated = Append(@, validation.data)])
            ELSE ValidateRows_FailedNotCounted(data, index + 1,
                     [results EXCEPT !.errors = Append(@, [row |-> index + 1,
                                                           data |-> item,
                                                           errors |-> validation.errors])])
    IN  IF index >= Len(data) THEN results
        ELSE Row(data[index + 1], validateTicket(data[index + 1], TRUE))

\* Mutant: a failed row is reported under its 0-based index.
RECURSIVE ValidateRows_RowFromZero(_, _, _)
ValidateRows_RowFromZero(data, index, results) ==
    LET Row(item, validation) ==
            IF validation.valid
            THEN ValidateRows_RowFromZero(data, index + 1,
                     [results EXCEPT !.successful = @ + 1,
                                     !.validated = Append(@, validation.data)])
            ELSE ValidateRows_RowFromZero(data, index + 1,
                     [results EXCEPT !.failed = @ + 1,
                                     !.errors = Append(@, [row |-> index,
                                                           data |-> item,
                                                           errors |-> validation.errors])])
    IN  IF index >= Len(data) THEN results
        ELSE Row(data[index + 1], validateTicket(data[index + 1], TRUE))

\* Mutant: the rows after a failed row are not looked at.
RECURSIVE ValidateRows_StopsAtFailedRow(_, _, _)
ValidateRows_StopsAtFailedRow(data, index, results) ==
    LET Row(item, validation) ==
            IF validation.valid
            THEN ValidateRows_StopsAtFailedRow(data, index + 1,
                     [results EXCEPT !.successful = @ + 1,
                                     !.validated = Append(@, validation.data)])
            ELSE [results EXCEPT !.failed = Len(data) - index,
                                 !.errors = Append(@, [row |-> index + 1,
                                                       data |-> item,
                                                       errors |-> validation.errors])]
    IN  IF index >= Len(data) THEN results
        ELSE Row(data[index + 1], validateTicket(data[index + 1], TRUE))

\* data.forEach of validateTickets, from row `index` (0-based) on.
RECURSIVE ValidateRows(_, _, _)
ValidateRows(data, index, results) ==
    LET Row(item, validation) ==
            IF validation.valid
            THEN ValidateRows(data, index + 1,
                     [results EXCEPT !.successful = @ + 1,
                                     !.validated = Append(@, validation.data)])
            ELSE ValidateRows(data, index + 1,
                     [results EXCEPT !.failed = @ + 1,
                                     !.errors = Append(@, [row |-> index + 1,
                                                           data |-> item,
                                                           errors |-> validation.errors])])
    IN  IF index >= Len(data) THEN results
        ELSE Row(data[index + 1], validateTicket(data[index + 1], TRUE))

validateTickets(data) ==
    ValidateRows(data, 0,
        [total |-> Len(data), successful |-> 0, failed |-> 0,
         errors |-> <<>>, validated |-> <<>>])

(***************************************************************************)
(* parsers/csvParser.js, parsers/xmlParser.js, parsers/jsonParser.js.      *)
(* A payload is the document its bytes spell in one syntax, or bytes that  *)
(* are malformed in that syntax.                                           *)
(***************************************************************************)
ParseFailure == [success |-> FALSE, error |-> "error.message", data |-> <<>>, count |-> 0]
ParseSuccess(records) == [success |-> TRUE, data |-> records, count |-> Len(records)]

\* Mutant: a file without data rows is reported as a failure.
CSVParserParse_NoRowsIsFailure(content) ==
    IF content.syntax = "csv" /\ ~content.malformed /\ Len(content.rows) > 0
    THEN ParseSuccess(content.rows)
    ELSE ParseFailure

\* CSVParser.parse: csv-parse with columns, skip_empty_lines and trim.
CSVParserParse(content) ==
    IF content.syntax = "csv" /\ ~content.malformed
    THEN ParseSuccess(content.rows)
    ELSE ParseFailure

\* JSONParser.parse: Array.isArray(data) ? data : [data]
JSONParserParse(content) ==
    IF content.syntax = "json" /\ ~content.malformed
    THEN ParseSuccess(IF content.value.isArray THEN content.value.items
                      ELSE << content.value.item >>)
    ELSE ParseFailure

\* The children of the root element with one name, in document order.
Children(root, name) == OrElse(root, name, <<>>)

\* xml2js with explicitArray: false: one child is its value, several are an array.
XmlValue(children) ==
    IF Len(children) = 1
    THEN [isArray |-> FALSE, item |-> children[1]]
    ELSE [isArray |-> TRUE, items |-> children]

\* if (root.ticket): undefined without such a child, and '' for one empty element.
Truthy(children) ==
    \/ Len(children) > 1
    \/ Len(children) = 1 /\ children[1] # NonObject

\* Array.isArray(v) ? v : [v]
AsArray(value) == IF value.isArray THEN value.items ELSE << value.item >>

\* The object xml2js builds for the root element: '' for an element with no
\* child, else its fields with one key for each name of its children.
RootObject(root) ==
    LET fields == OrElse(root, "fields", <<>>)
        keys == (DOMAIN fields)
                \cup (IF Len(Children(root, "ticket")) > 0 THEN {"ticket"} ELSE {})
                \cup (IF Len(Children(root, "item")) > 0 THEN {"item"} ELSE {})
    IN  IF keys = {} THEN NonObject
        ELSE [k \in keys |->
                 IF k = "ticket" THEN XmlValue(Children(root, "ticket"))
                 ELSE IF k = "item" THEN XmlValue(Children(root, "item"))
                 ELSE fields[k]]

\* Mutant: Object.keys(result) of an empty document throws outside the try.
XMLParserParse_NullResultThrows(content) ==
    IF content.syntax = "xml" /\ ~content.malformed
    THEN IF ~Has(content, "root")
         THEN [thrown |-> "TypeError"]
         ELSE ParseSuccess(IF Truthy(Children(content.root, "ticket"))
                           THEN AsArray(XmlValue(Children(content.root, "ticket")))
                           ELSE IF Truthy(Children(content.root, "item"))
                           THEN AsArray(XmlValue(Children(content.root, "item")))
                           ELSE << RootObject(content.root) >>)
    ELSE ParseFailure

\* XMLParser.parse.  parseStringPromise rejects malformed bytes and resolves to
\* null for an empty document, where Object.keys(result) throws inside the try;
\* else the result has the one key of the root element, and the root, built
\* from an element, is no array.
XMLParserParse(content) ==
    IF content.syntax = "xml" /\ ~content.malformed
    THEN IF ~Has(content, "root")
         THEN ParseFailure
         ELSE ParseSuccess(IF Truthy(Children(content.root, "ticket"))
                           THEN AsArray(XmlValue(Children(content.root, "ticket")))
                           ELSE IF Truthy(Children(content.root, "item"))
                           THEN AsArray(XmlValue(Children(content.root, "item")))
                           ELSE << RootObject(content.root) >>)
    ELSE ParseFailure

(***************************************************************************)
(* The body parsers in front of POST /tickets/import: express.json() of    *)
(* the application and express.raw({ type: 'text/*' }) of the route.       *)
(***************************************************************************)
ContentTypes ==
    {"text/csv", "text/json", "text/xml", "text/plain",
     "application/json", "application/xml"}

\* contentType.includes('csv' | 'json' | 'xml'), tested in this order.
FormatOf(contentType) ==
    IF contentType = "text/csv" THEN "csv"
    ELSE IF contentType \in {"text/json", "application/json"} THEN "json"
    ELSE IF contentType \in {"text/xml", "application/xml"} THEN "xml"
    ELSE "none"

\* String(object): "[object Object]", which no parser of the three accepts.
StringifiedObject == [syntax |-> "text", malformed |-> TRUE]

\* req.body as the handler finds it.
RequestBody(contentType, payload) ==
    IF contentType \in {"text/csv", "text/json", "text/xml", "text/plain"}
    THEN [kind |-> "buffer", content |-> payload]
    ELSE IF contentType = "application/json"
    THEN IF payload.syntax = "json" /\ ~payload.malformed
         THEN [kind |-> "parsed", content |-> StringifiedObject]
         ELSE [kind |-> "error"]
    ELSE [kind |-> "undefined"]

(***************************************************************************)
(* routes/tickets.js and services/classificationService.js                 *)
(***************************************************************************)
\* The arguments and the result of one classify call.
Call(ticket, classification) ==
    [ticket |-> [subject |-> ticket.subject, description |-> ticket.description],
     classification |-> classification]

\* Mutant: the classification is attached but category and priority are not set.
WithClassification_KeepsCategory(ticket, classification, now) ==
    [ticket EXCEPT !.classification =
                        [k \in (DOMAIN classification) \cup {"classified_at", "manual_override"} |->
                            IF k = "classified_at" THEN now
                            ELSE IF k = "manual_override" THEN FALSE
                            ELSE classification[k]]]

\* Mutant: the attachment is stamped manual_override: true.
WithClassification_ManualOverride(ticket, classification, now) ==
    [ticket EXCEPT !.category = classification.category,
                   !.priority = classification.priority,
                   !.classification =
                        [k \in (DOMAIN classification) \cup {"classified_at", "manual_override"} |->
                            IF k = "classified_at" THEN now
                            ELSE IF k = "manual_override" THEN TRUE
                            ELSE classification[k]]]

\* Mutant: the keywords of the attachment the ticket already has are kept in front.
WithClassification_KeepsOldKeywords(ticket, classification, now) ==
    [ticket EXCEPT !.category = classification.category,
                   !.priority = classification.priority,
                   !.classification =
                        [k \in (DOMAIN classification) \cup {"classified_at", "manual_override"} |->
                            IF k = "classified_at" THEN now
                            ELSE IF k = "manual_override" THEN FALSE
                            ELSE IF k = "keywords_found"
                                    /\ ticket.classification # Null
                                    /\ Has(ticket.classification, "keywords_found")
                            THEN ticket.classification.keywords_found \o classification[k]
                            ELSE classification[k]]]

\* ticket.category = ...; ticket.priority = ...; ticket.classification = { ... }
WithClassification(ticket, classification, now) ==
    [ticket EXCEPT !.category = classification.category,
                   !.priority = classification.priority,
                   !.classification =
                        [k \in (DOMAIN classification) \cup {"classified_at", "manual_override"} |->
                            IF k = "classified_at" THEN now
                            ELSE IF k = "manual_override" THEN FALSE
                            ELSE classification[k]]]

\* Mutant: the new classification is also written on every other stored ticket.
UpdateClassified_OnEveryTicket(storage, classified, now) ==
    [storage |->
        [i \in 1..Len(update(MapSet(storage, classified), classified.id, classified, now)) |->
            IF update(MapSet(storage, classified), classified.id, classified, now)[i].id
                  = classified.id
            THEN update(MapSet(storage, classified), classified.id, classified, now)[i]
            ELSE [update(MapSet(storage, classified), classified.id, classified, now)[i]
                     EXCEPT !.category = classified.category,
                            !.priority = classified.priority,
                            !.classification = classified.classification]],
     ticket |-> Assigned(classified, classified, now)]

\* Ticket.update(ticket.id, ticket) on a ticket that was classified in place.
UpdateClassified(storage, classified, now) ==
    [storage |-> update(MapSet(storage, classified), classified.id, classified, now),
     ticket |-> Assigned(classified, classified, now)]

\* Ticket.create(data), then with autoClassify the classification and Ticket.update.
CreateTicket(storage, data, id, now, autoClassify) ==
    LET Classified(ticket, classification) ==
            [storage |-> UpdateClassified(MapSet(storage, ticket),
                             WithClassification(ticket, classification, now), now).storage,
             ticket |-> UpdateClassified(MapSet(storage, ticket),
                             WithClassification(ticket, classification, now), now).ticket,
             calls |-> << Call(ticket, classification) >>]
        Created(ticket) ==
            IF autoClassify
            THEN Classified(ticket, classify(ticket))
            ELSE [storage |-> MapSet(storage, ticket), ticket |-> ticket, calls |-> <<>>]
    IN  Created(NewTicket(data, id, now))

\* Mutant: every ticket of an import is created under the same id.
RECURSIVE CreateValidated_SameId(_, _, _, _, _, _, _, _)
CreateValidated_SameId(validated, i, storage, counter, now, autoClassify, createdTickets, made) ==
    LET Continue(c) ==
            CreateValidated_SameId(validated, i + 1, c.storage, counter, now, autoClassify,
                                   Append(createdTickets, c.ticket), made \o c.calls)
    IN  IF i > Len(validated)
        THEN [storage |-> storage, counter |-> IF i > 1 THEN counter + 1 ELSE counter,
              createdTickets |-> createdTickets, calls |-> made]
        ELSE Continue(CreateTicket(storage, validated[i], counter + 1, now, autoClassify))

\* validation.validated.forEach of POST /tickets/import, from position i on.
RECURSIVE CreateValidated(_, _, _, _, _, _, _, _)
CreateValidated(validated, i, storage, counter, now, autoClassify, createdTickets, made) ==
    LET Continue(c) ==
            CreateValidated(validated, i + 1, c.storage, counter + 1, now, autoClassify,
                            Append(createdTickets, c.ticket), made \o c.calls)
    IN  IF i > Len(validated)
        THEN [storage |-> storage, counter |-> counter,
              createdTickets |-> createdTickets, calls |-> made]
        ELSE Continue(CreateTicket(storage, validated[i], counter + 1, now, autoClassify))

\* The parser POST /tickets/import selects by content type.
ParseByContentType(contentType, content) ==
    IF FormatOf(contentType) = "csv" THEN CSVParserParse(content)
    ELSE IF FormatOf(contentType) = "json" THEN JSONParserParse(content)
    ELSE XMLParserParse(content)

\* res.status(201).json({ summary, tickets, errors }) of POST /tickets/import
ImportResponse(validation, createdTickets) ==
    [status |-> 201,
     body |-> IF Len(validation.errors) > 0
              THEN [summary |-> [total |-> validation.total,
                                 successful |-> validation.successful,
                                 failed |-> validation.failed],
                    tickets |-> createdTickets,
                    errors |-> validation.errors]
              ELSE [summary |-> [total |-> validation.total,
                                 successful |-> validation.successful,
                                 failed |-> validation.failed],
                    tickets |-> createdTickets]]

\* router.post('/import'): the storage, the id counter, the response and the calls.
ImportOutcome(storage, counter, now, contentType, payload, autoClassify) ==
    LET Unchanged(resp) == [storage |-> storage, counter |-> counter,
                            response |-> resp, calls |-> <<>>]
        Done(validation, done) ==
            [storage |-> done.storage,
             counter |-> done.counter,
             calls |-> done.calls,
             response |-> ImportResponse(validation, done.createdTickets)]
        Validated(validation) ==
            Done(validation, CreateValidated(validation.validated, 1, storage, counter,
                                             now, autoClassify, <<>>, <<>>))
        Parsed(parseResult) ==
            IF ~parseResult.success
            THEN Unchanged([status |-> 400,
                            body |-> [error |-> "Failed to parse file",
                                      details |-> parseResult.error]])
            ELSE Validated(validateTickets(parseResult.data))
        Handle(body) ==
            IF body.kind = "error"
            THEN Unchanged([status |-> 500, body |-> [error |-> "Internal server error"]])
            ELSE IF body.kind = "undefined"
            THEN Unchanged([status |-> 400, body |-> [error |-> "No file content provided"]])
            ELSE IF FormatOf(contentType) = "none"
            THEN Unchanged([status |-> 400, body |-> [error |-> "Unsupported content type"]])
            ELSE Parsed(ParseByContentType(contentType, body.content))
    IN  Handle(RequestBody(contentType, payload))

\* ClassificationService.autoClassifyTicket: the storage, the result and the calls.
autoClassifyTicket(storage, ticketId, now) ==
    LET Classified(ticket, classification) ==
            [storage |-> UpdateClassified(storage,
                             WithClassification(ticket, classification, now), now).storage,
             calls |-> << Call(ticket, classification) >>,
             result |-> [success |-> TRUE,
                         classification |->
                             WithClassification(ticket, classification, now).classification]]
        Found(ticket) ==
            IF ticket = Null
            THEN [storage |-> storage, calls |-> <<>>,
                  result |-> [error |-> "Ticket not found", status |-> 404]]
            ELSE Classified(ticket, classify(ticket))
    IN  Found(findById(storage, ticketId))

(***************************************************************************)
(* The requests of a behaviour.                                            *)
(***************************************************************************)
Batches == UNION { [1..n -> RawRecords] : n \in 0..MaxBatch }

\* The cell csv-parse yields where a row leaves a column of the header empty.
EmptyCell(column) == IF column \in {"category", "priority", "status"} THEN "" ELSE <<>>

\* columns: true of CSVParser.parse: every row has every column of the header.
CsvRows(batch) ==
    [i \in 1..Len(batch) |->
        [column \in UNION { DOMAIN batch[j] : j \in 1..Len(batch) } |->
            IF column \in DOMAIN batch[i] THEN batch[i][column] ELSE EmptyCell(column)]]

\* The payloads sent with a content type: documents of its syntax, or malformed bytes.
PayloadsOf(contentType) ==
    IF FormatOf(contentType) = "csv"
    THEN { [syntax |-> "csv", malformed |-> FALSE, rows |-> CsvRows(b)] : b \in Batches }
         \cup { [syntax |-> "csv", malformed |-> TRUE] }
    ELSE IF FormatOf(contentType) = "json"
    THEN { [syntax |-> "json", malformed |-> FALSE,
            value |-> [isArray |-> TRUE, items |-> b]] : b \in Batches }
         \cup { [syntax |-> "json", malformed |-> FALSE,
                 value |-> [isArray |-> FALSE, item |-> r]] : r \in RawRecords }
         \cup { [syntax |-> "json", malformed |-> TRUE] }
    ELSE IF FormatOf(contentType) = "xml"
    THEN { [syntax |-> "xml", malformed |-> FALSE, root |-> [ticket |-> b]] :
              b \in Batches }
         \cup { [syntax |-> "xml", malformed |-> TRUE] }
    ELSE { [syntax |-> "text", malformed |-> TRUE] }

TicketIds == 1..MaxTickets

Init ==
    /\ CLASSIFICATION_RULES = ClassificationRulesTable
    /\ PRIORITY_KEYWORDS = PriorityKeywordsTable
    /\ ticketsStorage = <<>>
    /\ uuidCounter = 0
    /\ clock = 0
    /\ request = [op |-> "none"]
    /\ response = [status |-> "none"]
    /\ calls = <<>>
    /\ observed = NoObservation

\* The observer keeps its call or replaces it by one of the calls just made.
Observe ==
    observed' \in {observed} \cup { [seen |-> TRUE, call |-> calls'[i], at |-> clock] :
                                       i \in 1..Len(calls') }

Rules == <<CLASSIFICATION_RULES, PRIORITY_KEYWORDS>>

\* No request is being handled: the handlers run one request at a time.
Idle == request.op = "none"

\* router.post('/')
PostTicket(body, autoClassify) ==
    LET Created(c) ==
            /\ uuidCounter < MaxTickets
            /\ ticketsStorage' = c.storage
            /\ uuidCounter' = uuidCounter + 1
            /\ calls' = c.calls
            /\ response' = [status |-> 201, body |-> c.ticket]
        Validated(validation) ==
            IF ~validation.valid
            THEN /\ response' = [status |-> 400,
                                 body |-> [error |-> "Validation failed",
                                           details |-> validation.errors]]
                 /\ calls' = <<>>
                 /\ UNCHANGED <<ticketsStorage, uuidCounter>>
            ELSE Created(CreateTicket(ticketsStorage, validation.data, uuidCounter + 1,
                                      clock, autoClassify))
    IN  /\ Idle
        /\ request' = [op |-> "POST /tickets", body |-> body, autoClassify |-> autoClassify]
        /\ Validated(validateTicket(body, TRUE))
        /\ Observe
        /\ UNCHANGED <<Rules, clock>>

\* router.put('/:id')
PutTicket(id, patch) ==
    LET Validated(validation) ==
            IF ~validation.valid
            THEN /\ response' = [status |-> 400,
                                 body |-> [error |-> "Validation failed",
                                           details |-> validation.errors]]
                 /\ UNCHANGED ticketsStorage
            ELSE /\ ticketsStorage' = update(ticketsStorage, id, validation.data, clock)
                 /\ response' = [status |-> 200, body |-> findById(ticketsStorage', id)]
        Found(ticket) ==
            IF ticket = Null
            THEN /\ response' = [status |-> 404, body |-> [error |-> "Ticket not found"]]
                 /\ UNCHANGED ticketsStorage
            ELSE Validated(validateTicket(Spread(ticket, patch), FALSE))
    IN  /\ Idle
        /\ request' = [op |-> "PUT /tickets/:id", id |-> id, body |-> patch]
        /\ calls' = <<>>
        /\ Found(findById(ticketsStorage, id))
        /\ UNCHANGED <<Rules, uuidCounter, clock, observed>>

\* router.delete('/:id')
DeleteTicket(id) ==
    /\ Idle
    /\ request' = [op |-> "DELETE /tickets/:id", id |-> id]
    /\ calls' = <<>>
    /\ IF findById(ticketsStorage, id) = Null
       THEN /\ response' = [status |-> 404, body |-> [error |-> "Ticket not found"]]
            /\ UNCHANGED ticketsStorage
       ELSE /\ ticketsStorage' = delete(ticketsStorage, id)
            /\ response' = [status |-> 204]
    /\ UNCHANGED <<Rules, uuidCounter, clock, observed>>

\* router.post('/import')
ImportTickets(contentType, payload, autoClassify) ==
    LET Respond(out) ==
            /\ out.counter <= MaxTickets
            /\ ticketsStorage' = out.storage
            /\ uuidCounter' = out.counter
            /\ response' = out.response
            /\ calls' = out.calls
    IN  /\ Idle
        /\ request' = [op |-> "POST /tickets/import", contentType |-> contentType,
                       payload |-> payload, autoClassify |-> autoClassify]
        /\ Respond(ImportOutcome(ticketsStorage, uuidCounter, clock, contentType, payload,
                                 autoClassify))
        /\ Observe
        /\ UNCHANGED <<Rules, clock>>

\* router.post('/:id/auto-classify')
PostAutoClassify(id) ==
    LET Respond(out) ==
            /\ ticketsStorage' = out.storage
            /\ calls' = out.calls
            /\ response' =
                  IF "error" \in DOMAIN out.result
                  THEN [status |-> out.result.status,
                        body |-> [error |-> out.result.error]]
                  ELSE [status |-> 200,
                        body |-> [ticket |-> findById(out.storage, id),
                                  classification |-> out.result.classification]]
    IN  /\ Idle
        /\ request' = [op |-> "POST /tickets/:id/auto-classify", id |-> id]
        /\ IF findById(ticketsStorage, id) = Null
           THEN /\ response' = [status |-> 404, body |-> [error |-> "Ticket not found"]]
                /\ calls' = <<>>
                /\ UNCHANGED ticketsStorage
           ELSE Respond(autoClassifyTicket(ticketsStorage, id, clock))
        /\ Observe
        /\ UNCHANGED <<Rules, uuidCounter, clock>>

\* Mutant: classify writes its category and priority into the ticket it was given.
TicketAfterClassify_AssignsResult(ticket, classification) ==
    [ticket EXCEPT !.category = classification.category,
                   !.priority = classification.priority]

\* The ticket object classify was given, after the call: classify reads
\* ticket.subject and ticket.description and assigns no field.
TicketAfterClassify(ticket, classification) == ticket

\* ClassificationService.classify(ticket) called on a stored ticket: the object
\* passed is the one the Map holds.
ClassifyStored(id) ==
    LET Returned(ticket, classification) ==
            /\ request' = [op |-> "classify", ticket |-> ticket]
            /\ calls' = << Call(ticket, classification) >>
            /\ response' = [status |-> "returned", classification |-> classification]
            /\ ticketsStorage' = MapSet(ticketsStorage, TicketAfterClassify(ticket, classification))
        Found(ticket) == Returned(ticket, classify(ticket))
    IN  /\ Idle
        /\ findById(ticketsStorage, id) # Null
        /\ Found(findById(ticketsStorage, id))
        /\ Observe
        /\ UNCHANGED <<Rules, uuidCounter, clock>>

\* res.json / res.send: the response leaves and the request is over.
Respond ==
    /\ ~Idle
    /\ request' = [op |-> "none"]
    /\ response' = [status |-> "none"]
    /\ calls' = <<>>
    /\ UNCHANGED <<Rules, ticketsStorage, uuidCounter, clock, observed>>

\* Time passes between two requests.
Tick ==
    /\ Idle
    /\ clock < MaxClock
    /\ clock' = clock + 1
    /\ UNCHANGED <<Rules, ticketsStorage, uuidCounter, request, response, calls, observed>>

Next ==
    \/ \E body \in RawRecords, autoClassify \in BOOLEAN : PostTicket(body, autoClassify)
    \/ \E id \in TicketIds, patch \in Patches : PutTicket(id, patch)
    \/ \E id \in TicketIds : DeleteTicket(id)
    \/ \E contentType \in ContentTypes, autoClassify \in BOOLEAN :
          \E payload \in PayloadsOf(contentType) :
             ImportTickets(contentType, payload, autoClassify)
    \/ \E id \in TicketIds : PostAutoClassify(id)
    \/ \E id \in TicketIds : ClassifyStored(id)
    \/ Respond
    \/ Tick

Spec == Init /\ [][Next]_vars

(***************************************************************************)
(* Direct calls of the Ticket model: Ticket.create, Ticket.update and      *)
(* Ticket.delete called by any caller with any patch (SpecTicket).         *)
(***************************************************************************)
TicketData == {ValidRecord1, ValidRecord2}

\* Patches a caller of Ticket.update may pass, with id and created_at among the keys.
UpdateData ==
    { [id |-> 2, created_at |-> MaxClock + 1],
      [id |-> 0, subject |-> <<"Bug report">>, updated_at |-> MaxClock + 1],
      [status |-> "resolved"] }

\* The ids update and delete are called with: those ever given out and one never stored.
UpdateIds == 1..(MaxTickets + 1)

\* Ticket.create(data)
TicketCreate(data) ==
    /\ uuidCounter < MaxTickets
    /\ request' = [op |-> "Ticket.create", data |-> data]
    /\ ticketsStorage' = MapSet(ticketsStorage, NewTicket(data, uuidCounter + 1, clock))
    /\ uuidCounter' = uuidCounter + 1
    /\ response' = [status |-> "returned",
                    result |-> NewTicket(data, uuidCounter + 1, clock)]
    /\ UNCHANGED <<Rules, clock, calls, observed>>

\* Ticket.update(id, data)
TicketUpdate(id, data) ==
    /\ request' = [op |-> "Ticket.update", id |-> id, data |-> data]
    /\ ticketsStorage' = update(ticketsStorage, id, data, clock)
    /\ response' = [status |-> "returned",
                    result |-> updated(ticketsStorage, id, data, clock)]
    /\ UNCHANGED <<Rules, uuidCounter, clock, calls, observed>>

\* Ticket.delete(id)
TicketDelete(id) ==
    /\ request' = [op |-> "Ticket.delete", id |-> id]
    /\ ticketsStorage' = delete(ticketsStorage, id)
    /\ response' = [status |-> "returned", result |-> IndexOfId(ticketsStorage, id) # 0]
    /\ UNCHANGED <<Rules, uuidCounter, clock, calls, observed>>

\* Time passes between two calls.
Elapse ==
    /\ clock < MaxClock
    /\ clock' = clock + 1
    /\ UNCHANGED <<Rules, ticketsStorage, uuidCounter, request, response, calls, observed>>

NextTicket ==
    \/ \E data \in TicketData : TicketCreate(data)
    \/ \E id \in UpdateIds, data \in UpdateData : TicketUpdate(id, data)
    \/ \E id \in UpdateIds : TicketDelete(id)
    \/ Elapse

SpecTicket == Init /\ [][NextTicket]_vars

(***************************************************************************)
(* Requests in flight together (SpecConcurrent).  Here `request` is the    *)
(* sequence of the requests received and not yet answered, and `response`  *)
(* the sequence of the answers in the order they were given.  A handler    *)
(* runs from its first statement to its first await or to its end before   *)
(* any other handler runs; the only await of the handlers is the one on    *)
(* XMLParser.parse in the import.  Any request in flight may run next.     *)
(***************************************************************************)
\* router.put('/:id'): the storage afterwards and the response.
PutOutcome(storage, id, patch, now) ==
    LET Validated(validation) ==
            IF ~validation.valid
            THEN [storage |-> storage,
                  response |-> [status |-> 400,
                                body |-> [error |-> "Validation failed",
                                          details |-> validation.errors]]]
            ELSE [storage |-> update(storage, id, validation.data, now),
                  response |-> [status |-> 200,
                                body |-> updated(storage, id, validation.data, now)]]
        Found(ticket) ==
            IF ticket = Null
            THEN [storage |-> storage,
                  response |-> [status |-> 404, body |-> [error |-> "Ticket not found"]]]
            ELSE Validated(validateTicket(Spread(ticket, patch), FALSE))
    IN  Found(findById(storage, id))

\* router.post('/:id/auto-classify'): the storage afterwards, the response, the calls.
AutoClassifyOutcome(storage, id, now) ==
    LET Classified(out) ==
            [storage |-> out.storage,
             calls |-> out.calls,
             response |->
                IF "error" \in DOMAIN out.result
                THEN [status |-> out.result.status, body |-> [error |-> out.result.error]]
                ELSE [status |-> 200,
                      body |-> [ticket |-> findById(out.storage, id),
                                classification |-> out.result.classification]]]
    IN  IF findById(storage, id) = Null
        THEN [storage |-> storage, calls |-> <<>>,
              response |-> [status |-> 404, body |-> [error |-> "Ticket not found"]]]
        ELSE Classified(autoClassifyTicket(storage, id, now))

\* The requests clients send while others are in flight.
ConcurrentRequests ==
    { [op |-> "POST /tickets", body |-> body, autoClassify |-> autoClassify] :
         body \in TicketData, autoClassify \in BOOLEAN }
    \cup { [op |-> "POST /tickets/import", contentType |-> "text/xml", autoClassify |-> TRUE,
            payload |-> [syntax |-> "xml", malformed |-> FALSE,
                         root |-> [ticket |-> << row >>]]] : row \in RawRecords }
    \cup { [op |-> "PUT /tickets/:id", id |-> id, body |-> patch] :
            id \in TicketIds, patch \in Patches }
    \cup { [op |-> "POST /tickets/:id/auto-classify", id |-> id] : id \in TicketIds }

\* The number of tickets a request will create.
Creates(req) ==
    IF req.op = "POST /tickets" THEN 1
    ELSE IF req.op = "POST /tickets/import"
    THEN Len(SelectSeq(req.payload.root.ticket, LAMBDA row : validateTicket(row, TRUE).valid))
    ELSE 0

\* The number of tickets the requests in flight will create.
RECURSIVE CreatesAll(_)
CreatesAll(requests) ==
    IF requests = <<>> THEN 0 ELSE Creates(Head(requests).req) + CreatesAll(Tail(requests))

\* The sequence without its k-th element.
Without(seq, k) == SubSeq(seq, 1, k - 1) \o SubSeq(seq, k + 1, Len(seq))

InitConcurrent ==
    /\ CLASSIFICATION_RULES = ClassificationRulesTable
    /\ PRIORITY_KEYWORDS = PriorityKeywordsTable
    /\ ticketsStorage = <<>>
    /\ uuidCounter = 0
    /\ clock = 0
    /\ request = <<>>
    /\ response = <<>>
    /\ calls = <<>>
    /\ observed = NoObservation

\* A request arrives and its body is read; its handler has not run yet.
Receive(req) ==
    /\ Len(request) + Len(response) < MaxInFlight
    /\ uuidCounter + CreatesAll(request) + Creates(req) <= MaxTickets
    /\ request' = Append(request, [n |-> Len(request) + Len(response) + 1,
                                   stage |-> "received", req |-> req])
    /\ UNCHANGED <<Rules, ticketsStorage, uuidCounter, clock, response, calls, observed>>

\* The handler of the k-th request in flight answers: the request leaves `request`.
Answered(k, resp) ==
    /\ request' = Without(request, k)
    /\ response' = Append(response, [n |-> request[k].n, req |-> request[k].req,
                                     status |-> resp.status, body |-> resp.body])

\* router.post('/') runs for the k-th request in flight.
HandlePost(k) ==
    LET Created(c) ==
            /\ ticketsStorage' = c.storage
            /\ uuidCounter' = uuidCounter + 1
            /\ calls' = c.calls
            /\ Answered(k, [status |-> 201, body |-> c.ticket])
        Validated(validation) ==
            IF ~validation.valid
            THEN /\ Answered(k, [status |-> 400,
                                 body |-> [error |-> "Validation failed",
                                           details |-> validation.errors]])
                 /\ calls' = <<>>
                 /\ UNCHANGED <<ticketsStorage, uuidCounter>>
            ELSE Created(CreateTicket(ticketsStorage, validation.data, uuidCounter + 1,
                                      clock, request[k].req.autoClassify))
    IN  /\ request[k].req.op = "POST /tickets"
        /\ Validated(validateTicket(request[k].req.body, TRUE))
        /\ UNCHANGED <<Rules, clock, observed>>

\* router.post('/import') runs for the k-th request up to `await XMLParser.parse`.
HandleImportAwait(k) ==
    /\ request[k].req.op = "POST /tickets/import"
    /\ request[k].stage = "received"
    /\ request' = [request EXCEPT ![k].stage = "await XMLParser.parse"]
    /\ UNCHANGED <<Rules, ticketsStorage, uuidCounter, clock, response, calls, observed>>

\* router.post('/import') resumes after the await and runs to its end.
HandleImportResume(k) ==
    LET Send(out) ==
            /\ ticketsStorage' = out.storage
            /\ uuidCounter' = out.counter
            /\ calls' = out.calls
            /\ Answered(k, out.response)
    IN  /\ request[k].req.op = "POST /tickets/import"
        /\ request[k].stage = "await XMLParser.parse"
        /\ Send(ImportOutcome(ticketsStorage, uuidCounter, clock,
                                 request[k].req.contentType, request[k].req.payload,
                                 request[k].req.autoClassify))
        /\ UNCHANGED <<Rules, clock, observed>>

\* router.put('/:id') runs for the k-th request in flight.
HandlePut(k) ==
    LET Send(out) ==
            /\ ticketsStorage' = out.storage
            /\ Answered(k, out.response)
    IN  /\ request[k].req.op = "PUT /tickets/:id"
        /\ Send(PutOutcome(ticketsStorage, request[k].req.id, request[k].req.body, clock))
        /\ calls' = <<>>
        /\ UNCHANGED <<Rules, uuidCounter, clock, observed>>

\* router.post('/:id/auto-classify') runs for the k-th request in flight.
HandleAutoClassify(k) ==
    LET Send(out) ==
            /\ ticketsStorage' = out.storage
            /\ calls' = out.calls
            /\ Answered(k, out.response)
    IN  /\ request[k].req.op = "POST /tickets/:id/auto-classify"
        /\ Send(AutoClassifyOutcome(ticketsStorage, request[k].req.id, clock))
        /\ UNCHANGED <<Rules, uuidCounter, clock, observed>>

NextConcurrent ==
    \/ \E req \in ConcurrentRequests : Receive(req)
    \/ \E k \in 1..Len(request) : HandlePost(k)
    \/ \E k \in 1..Len(request) : HandleImportAwait(k)
    \/ \E k \in 1..Len(request) : HandleImportResume(k)
    \/ \E k \in 1..Len(request) : HandlePut(k)
    \/ \E k \in 1..Len(request) : HandleAutoClassify(k)
    \/ Elapse

SpecConcurrent == InitConcurrent /\ [][NextConcurrent]_vars

(***************************************************************************)
(* GET /tickets over a store filled by Ticket.create (SpecQuery).          *)
(***************************************************************************)
\* parseInt(value) || fallback: NaN for a missing or non-numeric value, and 0, fall back.
ParseIntOr(query, key, fallback) ==
    IF Has(query, key) /\ Has(query[key], "int") /\ query[key].int # 0
    THEN query[key].int
    ELSE fallback

\* Array.prototype.slice(start, end): a negative index counts from the end.
Slice(arr, start, end) ==
    LET From(i) == IF i < 0 THEN Max(Len(arr) + i, 0) ELSE Min(i, Len(arr))
    IN  SubSeq(arr, From(start) + 1, From(end))

\* Math.ceil(n / d) for n >= 0 and d # 0.
Ceil(n, d) == IF d > 0 THEN (n + d - 1) \div d ELSE 0 - (n \div (0 - d))

\* The filters router.get('/') copies from the query: those that are not ''.
FiltersOf(query) ==
    [k \in { f \in {"category", "priority", "status", "customer_id", "search"} :
               Has(query, f) /\ query[f] # EmptyCell(f) } |-> query[k]]

\* router.get('/'): the response.
GetOutcome(storage, query) ==
    LET Paginated(tickets, page, limit) ==
            [status |-> 200,
             body |-> [data |-> Slice(tickets, (page - 1) * limit, (page - 1) * limit + limit),
                       pagination |-> [page |-> page, limit |-> limit,
                                       total |-> Len(tickets),
                                       pages |-> Ceil(Len(tickets), limit)]]]
    IN  Paginated(findByFilter(storage, FiltersOf(query)),
                  ParseIntOr(query, "page", 1), ParseIntOr(query, "limit", 20))

\* One query parameter with each of its values, and the query without it.
Params(key, values) == { [k \in {key} |-> v] : v \in values } \cup { <<>> }

PageParams == Params("page", { [int |-> n] : n \in -1..(MaxTickets + 1) } \cup { [text |-> "abc"] })
LimitParams == Params("limit", { [int |-> n] : n \in -1..MaxTickets })

\* The query strings of GET /tickets.
Queries ==
    { c @@ p @@ i @@ s @@ page @@ limit :
        c \in Params("category", {"", "other", "billing_question"}),
        p \in Params("priority", {"high"}),
        i \in Params("customer_id", {<<"CUST-001">>}),
        s \in Params("search", {<<"login">>, <<"Test User">>}),
        page \in PageParams,
        limit \in LimitParams }

\* router.get('/')
GetTickets(query) ==
    /\ Idle
    /\ request' = [op |-> "GET /tickets", query |-> query]
    /\ response' = GetOutcome(ticketsStorage, query)
    /\ UNCHANGED <<Rules, ticketsStorage, uuidCounter, clock, calls, observed>>

NextQuery ==
    \/ \E data \in TicketData : TicketCreate(data)
    \/ \E query \in Queries : GetTickets(query)
    \/ Respond

SpecQuery == Init /\ [][NextQuery]_vars

(***************************************************************************)
(* Tickets created, updated and re-classified through the routes, with     *)
(* updates that change the category or the priority alone (SpecUpdate).    *)
(***************************************************************************)
\* Bodies of PUT /tickets/:id: those of Patches, and a category or a priority alone.
UpdatePatches ==
    Patches \cup { [category |-> "billing_question"], [priority |-> "low"] }

NextUpdate ==
    \/ \E body \in TicketData, autoClassify \in BOOLEAN : PostTicket(body, autoClassify)
    \/ \E id \in TicketIds, patch \in UpdatePatches : PutTicket(id, patch)
    \/ \E id \in TicketIds : PostAutoClassify(id)
    \/ Respond
    \/ Tick

SpecUpdate == Init /\ [][NextUpdate]_vars

(***************************************************************************)
(* The parsers called on their own (SpecParse): every call hands one       *)
(* document, or bytes that are no document, to one parser.                 *)
(***************************************************************************)
\* JSON values that are neither an object nor an array.
JsonScalars == { [type |-> "number"], [type |-> "string"], [type |-> "null"] }

JsonItems == {ValidRecord1, InvalidRecord} \cup JsonScalars

JsonDocuments ==
    { [syntax |-> "json", malformed |-> FALSE, value |-> [isArray |-> TRUE, items |-> items]] :
         items \in UNION { [1..n -> JsonItems] : n \in 0..MaxBatch } }
    \cup { [syntax |-> "json", malformed |-> FALSE, value |-> [isArray |-> FALSE, item |-> item]] :
            item \in JsonItems }
    \cup { [syntax |-> "json", malformed |-> TRUE] }

CsvDocuments == PayloadsOf("text/csv")

\* Child elements of a root: elements with fields, and the empty element.
XmlElements == {ValidRecord1, InvalidRecord, NonObject}

XmlChildren == UNION { [1..n -> XmlElements] : n \in 0..MaxBatch }

\* Documents whose root holds ticket and item children, documents whose root
\* holds the fields of one record, the empty document and malformed bytes.
XmlDocuments ==
    { [syntax |-> "xml", malformed |-> FALSE, root |-> [ticket |-> t, item |-> i]] :
         t \in XmlChildren, i \in XmlChildren }
    \cup { [syntax |-> "xml", malformed |-> FALSE, root |-> [fields |-> f]] :
            f \in {ValidRecord1, InvalidRecord} }
    \cup { [syntax |-> "xml", malformed |-> FALSE], [syntax |-> "xml", malformed |-> TRUE] }

\* CSVParser.parse(content) called and returned.
CsvParse(content) ==
    /\ request' = [op |-> "CSVParser.parse", content |-> content]
    /\ response' = [status |-> "returned", result |-> CSVParserParse(content)]
    /\ UNCHANGED <<Rules, ticketsStorage, uuidCounter, clock, calls, observed>>

\* JSONParser.parse(content) called and returned.
JsonParse(content) ==
    /\ request' = [op |-> "JSONParser.parse", content |-> content]
    /\ response' = [status |-> "returned", result |-> JSONParserParse(content)]
    /\ UNCHANGED <<Rules, ticketsStorage, uuidCounter, clock, calls, observed>>

\* await XMLParser.parse(content) called and settled.
XmlParse(content) ==
    /\ request' = [op |-> "XMLParser.parse", content |-> content]
    /\ response' = [status |-> "returned", result |-> XMLParserParse(content)]
    /\ UNCHANGED <<Rules, ticketsStorage, uuidCounter, clock, calls, observed>>

NextParse ==
    \/ \E content \in CsvDocuments : CsvParse(content)
    \/ \E content \in JsonDocuments : JsonParse(content)
    \/ \E content \in XmlDocuments : XmlParse(content)

SpecParse == Init /\ [][NextParse]_vars

(***************************************************************************)
(* Vocabulary of the properties: what the configured tables say about a    *)
(* text, stated with sets and independent of the scanning order.           *)
(***************************************************************************)
\* The categories in rule-declaration order, and the levels by severity.
RuleOrder == <<"account_access", "technical_issue", "billing_question",
               "feature_request", "bug_report">>
SeverityOrder == <<"low", "medium", "high", "urgent">>

Position(seq, x) == CHOOSE i \in 1..Len(seq) : seq[i] = x

KeywordsOfCategory(cat) ==
    Elements(ClassificationRulesTable[
        CHOOSE c \in 1..Len(ClassificationRulesTable) :
            ClassificationRulesTable[c].category = cat].keywords)

KeywordsOfLevel(level) ==
    Elements(PriorityKeywordsTable[
        CHOOSE l \in 1..Len(PriorityKeywordsTable) :
            PriorityKeywordsTable[l].level = level].keywords)

Occurring(text, keywords) == { k \in keywords : Includes(text, Chars[k]) }

\* Number of keywords of a category occurring in the text, each counted once.
MatchCount(text, cat) == Cardinality(Occurring(text, KeywordsOfCategory(cat)))

MaxMatchCount(text) ==
    CHOOSE m \in { MatchCount(text, RuleOrder[c]) : c \in 1..Len(RuleOrder) } :
        \A c \in 1..Len(RuleOrder) : MatchCount(text, RuleOrder[c]) <= m

MatchedCategoryKeywords(text) ==
    UNION { Occurring(text, KeywordsOfCategory(RuleOrder[c])) : c \in 1..Len(RuleOrder) }

MatchedLevels(text) ==
    { SeverityOrder[l] : l \in { l \in 1..Len(SeverityOrder) :
                                   Occurring(text, KeywordsOfLevel(SeverityOrder[l])) # {} } }

MatchedPriorityKeywords(text) ==
    UNION { Occurring(text, KeywordsOfLevel(SeverityOrder[l])) : l \in 1..Len(SeverityOrder) }

MostSevere(levels) ==
    CHOOSE x \in levels :
        \A y \in levels : Position(SeverityOrder, y) <= Position(SeverityOrder, x)

\* A direct classify call has returned.
Classified == request.op = "classify" /\ response.status = "returned"
ClassifiedText == TicketText(request.ticket)
Result == response.classification

(***************************************************************************)
(* C1: classify returns the category with the greatest number of distinct  *)
(* keywords occurring in the text; categories that tie on that nonzero     *)
(* maximum resolve to the one declared earliest in the rule order.         *)
(***************************************************************************)
C1_CategoryIsEarliestMaximum ==
    Classified /\ MaxMatchCount(ClassifiedText) > 0 =>
        LET m == MaxMatchCount(ClassifiedText)
            first == CHOOSE c \in 1..Len(RuleOrder) :
                        /\ MatchCount(ClassifiedText, RuleOrder[c]) = m
                        /\ \A d \in 1..(c - 1) : MatchCount(ClassifiedText, RuleOrder[d]) < m
        IN  Result.category = RuleOrder[first]

\* Two categories tie on the nonzero maximum, one keyword occurs twice in the text.
C1_Witness ==
    /\ Classified
    /\ request.ticket.description = <<"bug", "bug">>
    /\ request.ticket.subject = <<>>
    /\ MatchCount(ClassifiedText, "technical_issue") = 1
    /\ MatchCount(ClassifiedText, "bug_report") = 1
    /\ Result.category = "technical_issue"

(***************************************************************************)
(* C2: classify returns the most severe level (low < medium < high <       *)
(* urgent) among the levels having a trigger keyword in the text, and      *)
(* medium when no trigger keyword occurs.                                  *)
(***************************************************************************)
C2_PriorityIsMostSevereMatched ==
    Classified =>
        Result.priority =
            IF MatchedLevels(ClassifiedText) = {} THEN "medium"
            ELSE MostSevere(MatchedLevels(ClassifiedText))

(***************************************************************************)
(* C3: a text containing no category keyword and no priority trigger       *)
(* keyword (the empty ticket included) classifies as other / medium with   *)
(* category_confidence 0.3 and priority_confidence 0.5.                    *)
(***************************************************************************)
C3_Fallback ==
    Classified /\ MatchedCategoryKeywords(ClassifiedText) = {}
               /\ MatchedPriorityKeywords(ClassifiedText) = {} =>
        /\ Result.category = "other"
        /\ Result.priority = "medium"
        /\ Result.category_confidence = 30
        /\ Result.priority_confidence = 50

\* The empty subject and description have been classified.
C3_Witness ==
    /\ Classified
    /\ request.ticket.subject = <<>>
    /\ request.ticket.description = <<>>
    /\ Result.category = "other"
    /\ Result.category_confidence = 30

(***************************************************************************)
(* C4: classify is deterministic.  Two calls on the same subject and       *)
(* description return the same category, priority, confidences, reasoning  *)
(* and keywords_found (same elements, same order), whether both are made   *)
(* by one request or with creations, updates, deletions, imports,          *)
(* auto-classifications and other classify calls between them.             *)
(***************************************************************************)
C4_ClassifyDeterministic ==
    \A i \in 1..Len(calls) :
        /\ \A j \in 1..Len(calls) :
              calls[i].ticket = calls[j].ticket
                  => calls[i].classification = calls[j].classification
        /\ (observed.seen /\ observed.call.ticket = calls[i].ticket)
              => observed.call.classification = calls[i].classification

\* A classify call on a text that was classified at an earlier time, after two
\* creations and a deletion, with keywords found and the first ticket classified.
C4_Witness ==
    /\ request.op = "classify"
    /\ observed.seen
    /\ observed.at < clock
    /\ Len(calls) = 1
    /\ calls[1].ticket = observed.call.ticket
    /\ Len(calls[1].classification.keywords_found) > 0
    /\ uuidCounter = 2
    /\ Len(ticketsStorage) = 1
    /\ ticketsStorage[1].classification # Null

(***************************************************************************)
(* C5 as claimed: keywords_found has no duplicate and, as a set, is every  *)
(* configured keyword occurring in the text in either scan, the priority   *)
(* trigger keywords included.                                              *)
(***************************************************************************)
C5_KeywordsFoundBothScans ==
    Classified =>
        /\ Cardinality(Elements(Result.keywords_found)) = Len(Result.keywords_found)
        /\ Elements(Result.keywords_found) =
              MatchedCategoryKeywords(ClassifiedText) \cup MatchedPriorityKeywords(ClassifiedText)

(***************************************************************************)
(* C5 amended: keywords_found has no duplicate and, as a set, is the set   *)
(* of category keywords occurring in the text; a priority trigger keyword  *)
(* is listed only when it is also a keyword of some category.              *)
(***************************************************************************)
C5_KeywordsFoundCategoryScan ==
    Classified =>
        /\ Cardinality(Elements(Result.keywords_found)) = Len(Result.keywords_found)
        /\ Elements(Result.keywords_found) = MatchedCategoryKeywords(ClassifiedText)

\* A keyword shared by two categories and a pure priority trigger both occur.
C5_Witness ==
    /\ Classified
    /\ "bug" \in Elements(Result.keywords_found)
    /\ "critical" \in MatchedPriorityKeywords(ClassifiedText)
    /\ "critical" \notin Elements(Result.keywords_found)

(***************************************************************************)
(* C6: category_confidence is min(m/5, 1) to two decimals, m the number of *)
(* matched keywords of the returned category, and 0.3 when no category     *)
(* keyword matched.                                                        *)
(***************************************************************************)
C6_CategoryConfidence ==
    Classified =>
        IF MatchedCategoryKeywords(ClassifiedText) = {}
        THEN Result.category_confidence = 30
        ELSE LET m == MatchCount(ClassifiedText, Result.category)
             IN  /\ m > 0
                 /\ Result.category_confidence = (IF m >= 5 THEN 100 ELSE 20 * m)

\* More than five keywords of the returned category matched: the clamp acts.
C6_Witness ==
    /\ Classified
    /\ Result.category = "account_access"
    /\ MatchCount(ClassifiedText, "account_access") > 5
    /\ Result.category_confidence = 100

(***************************************************************************)
(* C7: when a priority trigger keyword matched, priority_confidence is     *)
(* min(s/3, 1) to two decimals, s the 1-based position of the returned     *)
(* priority counted from the lowest severity; otherwise it is 0.5.         *)
(***************************************************************************)
C7_PriorityConfidence ==
    Classified =>
        IF MatchedPriorityKeywords(ClassifiedText) = {}
        THEN Result.priority_confidence = 50
        ELSE LET s == Position(SeverityOrder, Result.priority)
             IN  Result.priority_confidence =
                    (IF s >= 3 THEN 100 ELSE (200 * s + 3) \div 6)

\* Each of the three values below 1 and the clamped one is produced.
C7_Witness ==
    /\ Classified
    /\ MatchedPriorityKeywords(ClassifiedText) # {}
    /\ Result.priority_confidence = 33
    /\ Position(SeverityOrder, Result.priority) = 1

(***************************************************************************)
(* C8: the three confidences lie in [0, 1] and overall_confidence is the   *)
(* mean of the other two within a rounding tolerance of 0.01.              *)
(***************************************************************************)
C8_ConfidenceBounds ==
    Classified =>
        /\ Result.category_confidence \in 0..100
        /\ Result.priority_confidence \in 0..100
        /\ Result.overall_confidence \in 0..100
        /\ 2 * Result.overall_confidence - (Result.category_confidence + Result.priority_confidence) \in -2..2

\* A result whose two component confidences are both clamped to 1.
C8_Witness ==
    /\ Classified
    /\ Result.category_confidence = 100
    /\ Result.priority_confidence = 100
    /\ Result.overall_confidence = 100

(***************************************************************************)
(* Vocabulary of the import properties.                                    *)
(***************************************************************************)
ImportHandled == request.op = "POST /tickets/import"

\* The import request reaches a parser and the parser accepts its content.
PassesNormalization(req) ==
    /\ RequestBody(req.contentType, req.payload).kind \in {"buffer", "parsed"}
    /\ FormatOf(req.contentType) # "none"
    /\ ParseByContentType(req.contentType,
                          RequestBody(req.contentType, req.payload).content).success

\* The normalized records of an import request that passes normalization.
NormalizedRecords(req) ==
    ParseByContentType(req.contentType,
                       RequestBody(req.contentType, req.payload).content).data

IsValidRow(row) == validateTicket(row, TRUE).valid

ValidRows(rows) == SelectSeq(rows, IsValidRow)

\* The payload in the same syntax with the rows that fail validation taken out.
WithoutInvalidRows(payload) ==
    IF payload.malformed THEN payload
    ELSE IF payload.syntax = "csv" THEN [payload EXCEPT !.rows = ValidRows(@)]
    ELSE IF payload.syntax = "xml" THEN [payload EXCEPT !.root.ticket = ValidRows(@)]
    ELSE IF payload.syntax = "json" /\ payload.value.isArray
    THEN [payload EXCEPT !.value.items = ValidRows(@)]
    ELSE IF payload.syntax = "json" /\ ~IsValidRow(payload.value.item)
    THEN [payload EXCEPT !.value = [isArray |-> TRUE, items |-> <<>>]]
    ELSE payload

(***************************************************************************)
(* C9: for every import that passes normalization, summary.total is the    *)
(* number of normalized records, summary.successful + summary.failed is    *)
(* summary.total, and neither count is negative.                           *)
(***************************************************************************)
C9_ImportSummaryPartition ==
    (ImportHandled /\ PassesNormalization(request)) =>
        /\ "summary" \in DOMAIN response.body
        /\ response.body.summary.total = Len(NormalizedRecords(request))
        /\ response.body.summary.successful + response.body.summary.failed
              = response.body.summary.total
        /\ response.body.summary.successful >= 0
        /\ response.body.summary.failed >= 0

\* A JSON import of two records of which the second fails validation.
C9_Witness ==
    /\ ImportHandled
    /\ request.contentType = "text/json"
    /\ PassesNormalization(request)
    /\ Len(NormalizedRecords(request)) = 2
    /\ response.body.summary.successful = 1
    /\ response.body.summary.failed = 1
    /\ response.body.errors[1].row = 2

(***************************************************************************)
(* C10: the tickets an import creates (field values, classification and    *)
(* order), the successful count and the store afterwards are those of the  *)
(* import of the same batch without its invalid rows, started in the same  *)
(* state.                                                                  *)
(***************************************************************************)
C10_ImportRowIsolation ==
    [][ (Idle /\ request'.op = "POST /tickets/import" /\ response'.status = 201) =>
          LET Same(alone) ==
                  /\ alone.response.status = 201
                  /\ response'.body.tickets = alone.response.body.tickets
                  /\ response'.body.summary.successful
                        = alone.response.body.summary.successful
                  /\ ticketsStorage' = alone.storage
                  /\ uuidCounter' = alone.counter
          IN  Same(ImportOutcome(ticketsStorage, uuidCounter, clock,
                                 request'.contentType,
                                 WithoutInvalidRows(request'.payload),
                                 request'.autoClassify)) ]_vars

\* An import into a store that holds a ticket, of an invalid row followed by a
\* valid row, which is created and classified.
C10_Witness ==
    /\ ImportHandled
    /\ response.status = 201
    /\ Len(ticketsStorage) = 2
    /\ response.body.summary.total = 2
    /\ response.body.summary.failed = 1
    /\ response.body.errors[1].row = 1
    /\ Len(response.body.tickets) = 1
    /\ response.body.tickets[1].classification # Null
    /\ response.body.tickets[1] = ticketsStorage[2]

(***************************************************************************)
(* C11: the error list of an import has summary.failed entries, one per    *)
(* rejected record and in increasing input order; an entry carries the     *)
(* 1-based position of the record in the normalized sequence, the raw      *)
(* record and its validation errors; every rejected record is listed,      *)
(* whatever precedes it; the list is omitted when nothing failed.          *)
(***************************************************************************)
C11_ImportErrorList ==
    (ImportHandled /\ response.status = 201) =>
        IF response.body.summary.failed = 0
        THEN "errors" \notin DOMAIN response.body
        ELSE /\ "errors" \in DOMAIN response.body
             /\ Len(response.body.errors) = response.body.summary.failed
             /\ \A i \in 1..Len(response.body.errors) :
                   /\ response.body.errors[i].row \in 1..Len(NormalizedRecords(request))
                   /\ response.body.errors[i].data
                         = NormalizedRecords(request)[response.body.errors[i].row]
                   /\ response.body.errors[i].errors
                         = validateTicket(response.body.errors[i].data, TRUE).errors
                   /\ ~IsValidRow(response.body.errors[i].data)
                   /\ \A j \in 1..(i - 1) :
                         response.body.errors[j].row < response.body.errors[i].row
             /\ { response.body.errors[i].row : i \in 1..Len(response.body.errors) }
                   = { r \in 1..Len(NormalizedRecords(request)) :
                         ~IsValidRow(NormalizedRecords(request)[r]) }

\* A CSV import of two records that both fail validation.
C11_Witness ==
    /\ ImportHandled
    /\ request.contentType = "text/csv"
    /\ response.status = 201
    /\ response.body.summary.failed = 2
    /\ Len(response.body.errors) = 2
    /\ response.body.errors[1].row = 1
    /\ response.body.errors[2].row = 2

(***************************************************************************)
(* C12: an import whose payload is malformed in its syntax, or whose       *)
(* content type names none of csv, json and xml, answers 400 with an error *)
(* and no summary, and leaves the store and the id counter as they were;   *)
(* a successful import of no record answers 201 with a summary instead.    *)
(***************************************************************************)
C12_FailedNormalizationIsOneError ==
    [][ (/\ Idle
         /\ request'.op = "POST /tickets/import"
         /\ (request'.payload.malformed \/ FormatOf(request'.contentType) = "none")) =>
            /\ response'.status = 400
            /\ "error" \in DOMAIN response'.body
            /\ "summary" \notin DOMAIN response'.body
            /\ ticketsStorage' = ticketsStorage
            /\ uuidCounter' = uuidCounter ]_vars

(***************************************************************************)
(* C13: a successful import appends summary.successful tickets to the      *)
(* store, one per accepted record and in input order, each under an id no  *)
(* ticket had before; the tickets stored before the call stay as they were *)
(* and where they were; the tickets of the response are the new tickets in *)
(* the same order.                                                         *)
(***************************************************************************)
C13_ImportAddsAcceptedRecords ==
    [][ (Idle /\ request'.op = "POST /tickets/import" /\ response'.status = 201) =>
          LET Added(accepted, before) ==
                  /\ response'.body.summary.successful = Len(accepted)
                  /\ Len(ticketsStorage') = before + Len(accepted)
                  /\ SubSeq(ticketsStorage', 1, before) = ticketsStorage
                  /\ response'.body.tickets
                        = SubSeq(ticketsStorage', before + 1, Len(ticketsStorage'))
                  /\ \A i \in 1..Len(accepted) :
                        /\ ticketsStorage'[before + i].id > uuidCounter
                        /\ \A j \in 1..(i - 1) :
                              ticketsStorage'[before + j].id # ticketsStorage'[before + i].id
                        /\ \A k \in {"customer_id", "customer_email", "customer_name",
                                     "subject", "description"} :
                              ticketsStorage'[before + i][k] = accepted[i][k]
          IN  Added(ValidRows(NormalizedRecords(request')), Len(ticketsStorage)) ]_vars

\* A JSON import of two valid records: two tickets, stored in input order.
C13_Witness ==
    /\ ImportHandled
    /\ request.contentType = "text/json"
    /\ response.status = 201
    /\ response.body.summary.successful = 2
    /\ Len(ticketsStorage) = 2
    /\ ticketsStorage[1].customer_id # ticketsStorage[2].customer_id
    /\ response.body.tickets = ticketsStorage

(***************************************************************************)
(* Vocabulary of the store properties.                                     *)
(***************************************************************************)
\* The tickets of a store that were created after the id counter stood at `counter`.
CreatedAfter(storage, counter) == SelectSeq(storage, LAMBDA t : t.id > counter)

\* A create request (single or bulk) has just been answered 201.
CreateAnswered(req, resp) ==
    /\ req.op \in {"POST /tickets", "POST /tickets/import"}
    /\ resp.status = 201

\* classify's result for the subject and description of a ticket.
ClassifyOf(ticket) ==
    classify([subject |-> ticket.subject, description |-> ticket.description])

\* A classify result stamped with classified_at and manual_override = false.
Stamped(classification, now) ==
    [k \in (DOMAIN classification) \cup {"classified_at", "manual_override"} |->
        IF k = "classified_at" THEN now
        ELSE IF k = "manual_override" THEN FALSE
        ELSE classification[k]]

\* The records a create request asked to store, in order.
AcceptedRecords(req) ==
    IF req.op = "POST /tickets" THEN << req.body >>
    ELSE ValidRows(NormalizedRecords(req))

C15_AutoClassifyPersists ==
    [][ (/\ Idle
         /\ request'.op = "POST /tickets/:id/auto-classify"
         /\ response'.status = 200) =>
          LET Persisted(before, after) ==
                  /\ after.category = ClassifyOf(before).category
                  /\ after.priority = ClassifyOf(before).priority
                  /\ after.classification = Stamped(ClassifyOf(before), clock)
                  /\ response'.body.classification = after.classification
                  /\ response'.body.ticket = after
                  /\ after.subject = before.subject
                  /\ after.description = before.description
          IN  /\ Len(ticketsStorage') = Len(ticketsStorage)
              /\ \A i \in 1..Len(ticketsStorage) :
                    IF ticketsStorage[i].id = request'.id
                    THEN Persisted(ticketsStorage[i], ticketsStorage'[i])
                    ELSE ticketsStorage'[i] = ticketsStorage[i] ]_vars

\* The second of two stored tickets, created without classification, is auto-classified.
C15_Witness ==
    /\ request.op = "POST /tickets/:id/auto-classify"
    /\ request.id = 2
    /\ response.status = 200
    /\ Len(ticketsStorage) = 2
    /\ ticketsStorage[1].classification = Null
    /\ ticketsStorage[2].classification # Null
    /\ Len(response.body.classification.keywords_found) > 0

(***************************************************************************)
(* C16: auto-classify of an id that is not stored, by the service function *)
(* or through POST /tickets/:id/auto-classify, answers not found (404) and *)
(* leaves every stored ticket and their number as they were.               *)
(***************************************************************************)
C16_AutoClassifyNotFound ==
    [][ /\ (/\ Idle
            /\ request'.op = "POST /tickets/:id/auto-classify"
            /\ \A i \in 1..Len(ticketsStorage) : ticketsStorage[i].id # request'.id) =>
               /\ response'.status = 404
               /\ "error" \in DOMAIN response'.body
               /\ ticketsStorage' = ticketsStorage
        /\ \A id \in TicketIds :
              (\A i \in 1..Len(ticketsStorage) : ticketsStorage[i].id # id) =>
                 /\ autoClassifyTicket(ticketsStorage, id, clock).result
                       = [error |-> "Ticket not found", status |-> 404]
                 /\ autoClassifyTicket(ticketsStorage, id, clock).storage = ticketsStorage
      ]_vars

\* Auto-classify of an id that is not stored while another ticket is.
C16_Witness ==
    /\ request.op = "POST /tickets/:id/auto-classify"
    /\ response.status = 404
    /\ Len(ticketsStorage) = 1
    /\ ticketsStorage[1].id # request.id

(***************************************************************************)
(* C17: a stored ticket whose classification has manual_override = true    *)
(* keeps its classification, category and priority through every request   *)
(* that does not name it: creations, imports, and updates, deletions and    *)
(* auto-classifications of other ids.  Only PUT, auto-classify or DELETE    *)
(* of its own id may change or remove it.                                  *)
(***************************************************************************)
ManuallyOverridden(ticket) ==
    /\ Has(ticket.classification, "manual_override")
    /\ ticket.classification.manual_override = TRUE

Names(req, id) ==
    /\ req.op \in {"PUT /tickets/:id", "POST /tickets/:id/auto-classify",
                   "DELETE /tickets/:id"}
    /\ req.id = id

C17_ManualOverrideKept ==
    [][ \A i \in 1..Len(ticketsStorage) :
          (ManuallyOverridden(ticketsStorage[i]) /\ ~Names(request', ticketsStorage[i].id)) =>
             \E j \in 1..Len(ticketsStorage') :
                /\ ticketsStorage'[j].id = ticketsStorage[i].id
                /\ ticketsStorage'[j].classification = ticketsStorage[i].classification
                /\ ticketsStorage'[j].category = ticketsStorage[i].category
                /\ ticketsStorage'[j].priority = ticketsStorage[i].priority ]_vars

\* An import with autoClassify has created and classified a second ticket next to
\* a ticket with a manual override.
C17_Witness ==
    /\ ImportHandled
    /\ request.autoClassify
    /\ response.status = 201
    /\ Len(ticketsStorage) = 2
    /\ ManuallyOverridden(ticketsStorage[1])
    /\ Has(ticketsStorage[2].classification, "manual_override")
    /\ response.body.tickets = << ticketsStorage[2] >>

(***************************************************************************)
(* C18: a ticket created by POST /tickets with a category and a priority   *)
(* in the body, and autoClassify left on, is stored with those values, and *)
(* Ticket.findByFilter with that category and that priority returns it.    *)
(***************************************************************************)
C18_SuppliedCategoryStored ==
    (/\ request.op = "POST /tickets"
     /\ request.autoClassify
     /\ response.status = 201
     /\ Has(request.body, "category")
     /\ Has(request.body, "priority")) =>
        /\ findById(ticketsStorage, response.body.id).category = request.body.category
        /\ findById(ticketsStorage, response.body.id).priority = request.body.priority
        /\ \E i \in 1..Len(findByFilter(ticketsStorage,
                                 [category |-> request.body.category,
                                  priority |-> request.body.priority])) :
              findByFilter(ticketsStorage,
                           [category |-> request.body.category,
                            priority |-> request.body.priority])[i].id = response.body.id

(***************************************************************************)
(* C19: through every Ticket.update call, whatever the patch holds (id and *)
(* created_at included), every stored ticket keeps its id, its created_at  *)
(* and its entry in the store, and tickets of other ids are untouched; an  *)
(* update of an id that is not stored returns null and changes nothing.    *)
(***************************************************************************)
C19_UpdateKeepsIdAndCreatedAt ==
    [][ request'.op = "Ticket.update" =>
          IF \E i \in 1..Len(ticketsStorage) : ticketsStorage[i].id = request'.id
          THEN /\ Len(ticketsStorage') = Len(ticketsStorage)
               /\ \A i \in 1..Len(ticketsStorage) :
                     /\ ticketsStorage'[i].id = ticketsStorage[i].id
                     /\ ticketsStorage'[i].created_at = ticketsStorage[i].created_at
                     /\ IF ticketsStorage[i].id = request'.id
                        THEN response'.result = ticketsStorage'[i]
                        ELSE ticketsStorage'[i] = ticketsStorage[i]
          ELSE /\ response'.result = Null
               /\ ticketsStorage' = ticketsStorage ]_vars

\* An update of ticket 1 with a patch that names the id of ticket 2 and another
\* created_at: both tickets are still stored under their ids.
C19_Witness ==
    /\ request.op = "Ticket.update"
    /\ request.id = 1
    /\ Has(request.data, "created_at")
    /\ request.data.id = 2
    /\ Len(ticketsStorage) = 2
    /\ response.result = ticketsStorage[1]
    /\ ticketsStorage[1].id = 1
    /\ ticketsStorage[1].created_at # request.data.created_at
    /\ ticketsStorage[2].id = 2


\* The positions in `response` of the answers to POST /tickets requests.
AnsweredCreates == { i \in 1..Len(response) : response[i].req.op = "POST /tickets" }

\* The stored ticket carries the customer data of the request body.
StoredFrom(ticket, body) ==
    /\ ticket # Null
    /\ ticket.customer_id = body.customer_id
    /\ ticket.customer_email = body.customer_email
    /\ ticket.customer_name = body.customer_name
    /\ ticket.subject = body.subject
    /\ ticket.description = body.description

(***************************************************************************)
(* C20: when POST /tickets requests with valid bodies are in flight        *)
(* together with each other and with imports, updates and auto-classify    *)
(* requests, their handlers running in any order, every one of them is     *)
(* answered 201 with a ticket whose id no other create was answered with,  *)
(* and the store holds every ticket created: the ticket of each answer is  *)
(* stored under its id with the data of its request, and the store has as  *)
(* many tickets as ids were drawn.                                         *)
(***************************************************************************)
C20_ConcurrentCreatesAllStored ==
    /\ \A i \in AnsweredCreates :
          /\ response[i].status = 201
          /\ StoredFrom(findById(ticketsStorage, response[i].body.id), response[i].req.body)
          /\ \A j \in AnsweredCreates : i # j => response[i].body.id # response[j].body.id
    /\ Len(ticketsStorage) = uuidCounter

\* Two creates received together are answered in the opposite order of their
\* arrival, with an auto-classify request handled between them.
C20_Witness ==
    /\ Len(response) = 3
    /\ AnsweredCreates = {1, 3}
    /\ response[1].n > response[3].n
    /\ response[2].req.op = "POST /tickets/:id/auto-classify"
    /\ response[2].status = 200
    /\ response[1].status = 201
    /\ response[3].status = 201
    /\ Len(ticketsStorage) = 2

\* An import suspended at its await while a create runs, then resumed.
C20_WitnessImportInterleaved ==
    /\ Len(response) = 2
    /\ response[1].req.op = "POST /tickets"
    /\ response[2].req.op = "POST /tickets/import"
    /\ response[1].n > response[2].n
    /\ response[2].status = 201
    /\ Len(ticketsStorage) = 2


\* The call of a parser that has returned.
Parsed(op) == request.op = op /\ response.status = "returned"

\* A JSON value that is an object.
IsObject(value) == value \notin JsonScalars

(***************************************************************************)
(* C21: JSONParser.parse succeeds exactly when the payload is one JSON     *)
(* object, and then returns the one-element sequence holding it, or a JSON *)
(* array of objects, and then returns its elements in their order; every   *)
(* other payload, malformed JSON included, is a failure.                   *)
(***************************************************************************)
C21_JsonObjectOrArrayOfObjects ==
    Parsed("JSONParser.parse") =>
        LET content == request.content
            result == response.result
        IN  IF content.malformed
            THEN ~result.success
            ELSE IF content.value.isArray
            THEN IF \A i \in 1..Len(content.value.items) : IsObject(content.value.items[i])
                 THEN result.success /\ result.data = content.value.items
                 ELSE ~result.success
            ELSE IF IsObject(content.value.item)
                 THEN result.success /\ result.data = << content.value.item >>
                 ELSE ~result.success


(***************************************************************************)
(* C22: XMLParser.parse takes as records the ticket children of the root   *)
(* when it has any (one child alone as a one-element sequence), else its   *)
(* item children under the same rule, else the whole root as one record;   *)
(* a root with ticket and item children yields the ticket children only,   *)
(* and there are as many records as selected children.  (The root xml2js   *)
(* builds is never an array, so the first rule of the claim never applies.)*)
(***************************************************************************)
C22_XmlRecordsByFirstRule ==
    (Parsed("XMLParser.parse") /\ Has(request.content, "root")) =>
        LET root == request.content.root
            result == response.result
        IN  /\ result.success
            /\ result.data =
                  IF Len(Children(root, "ticket")) > 0 THEN Children(root, "ticket")
                  ELSE IF Len(Children(root, "item")) > 0 THEN Children(root, "item")
                  ELSE << RootObject(root) >>
            /\ result.count = Len(result.data)


\* The import of CSV content that is a header row and nothing else.
HeaderOnlyCsv(req) ==
    /\ req.op = "POST /tickets/import"
    /\ req.contentType = "text/csv"
    /\ req.payload.syntax = "csv"
    /\ ~req.payload.malformed
    /\ req.payload.rows = <<>>

(***************************************************************************)
(* C23: the import of CSV content that is only a header row succeeds: the  *)
(* parser returns zero records, the answer is 201 with the summary         *)
(* total = 0, successful = 0, failed = 0, no ticket and no error list, and *)
(* the store and the ids given out are as before.                          *)
(***************************************************************************)
C23_HeaderOnlyCsvSucceeds ==
    [][ (Idle /\ HeaderOnlyCsv(request')) =>
          /\ CSVParserParse(request'.payload).success
          /\ CSVParserParse(request'.payload).count = 0
          /\ response'.status = 201
          /\ response'.body.summary = [total |-> 0, successful |-> 0, failed |-> 0]
          /\ response'.body.tickets = <<>>
          /\ "errors" \notin DOMAIN response'.body
          /\ ticketsStorage' = ticketsStorage
          /\ uuidCounter' = uuidCounter ]_vars

\* A header-only import answered while the store holds a ticket.
C23_Witness ==
    /\ HeaderOnlyCsv(request)
    /\ response.status = 201
    /\ response.body.summary.total = 0
    /\ Len(ticketsStorage) = 1


\* A call of one of the three parsers has returned to its caller.
ParserReturned ==
    \/ Parsed("CSVParser.parse")
    \/ Parsed("JSONParser.parse")
    \/ Parsed("XMLParser.parse")

(***************************************************************************)
(* C24: each parser returns a result for any input and throws nothing to   *)
(* its caller: either success with count equal to the number of records in *)
(* data, or no success with an error message, empty data and count 0.      *)
(***************************************************************************)
C24_ParsersReturnResult ==
    ParserReturned =>
        LET result == response.result
        IN  /\ DOMAIN result \in { {"success", "data", "count"},
                                   {"success", "error", "data", "count"} }
            /\ IF result.success
               THEN "error" \notin DOMAIN result /\ result.count = Len(result.data)
               ELSE "error" \in DOMAIN result /\ result.data = <<>> /\ result.count = 0

\* The empty XML document, for which xml2js resolves to null: a failure result.
C24_Witness ==
    /\ Parsed("XMLParser.parse")
    /\ ~request.content.malformed
    /\ ~Has(request.content, "root")
    /\ ~response.result.success
    /\ response.result.count = 0


(***************************************************************************)
(* C25: a call of classify changes nothing: the ticket it was given is the *)
(* stored ticket as it was before the call, every ticket of the store is   *)
(* as before, and the category and priority rule tables are as before.     *)
(* The auto-classify of a ticket is the classification step that writes.   *)
(***************************************************************************)
C25_ClassifyHasNoSideEffect ==
    [][ (Idle /\ request'.op = "classify") =>
          /\ request'.ticket = findById(ticketsStorage, request'.ticket.id)
          /\ findById(ticketsStorage', request'.ticket.id) = request'.ticket
          /\ ticketsStorage' = ticketsStorage
          /\ CLASSIFICATION_RULES' = CLASSIFICATION_RULES
          /\ PRIORITY_KEYWORDS' = PRIORITY_KEYWORDS ]_vars

\* classify has returned a category other than the one the stored ticket has.
C25_Witness ==
    /\ request.op = "classify"
    /\ response.status = "returned"
    /\ response.classification.category # request.ticket.category
    /\ findById(ticketsStorage, request.ticket.id) = request.ticket


\* The request GET /tickets has been answered.
Listed == request.op = "GET /tickets"

\* The ticket satisfies every filter the query supplies.
Satisfies(ticket, query) ==
    /\ \A k \in {"category", "priority", "status"} :
          (Has(query, k) /\ query[k] # "") => ticket[k] = query[k]
    /\ Has(query, "customer_id") => ticket.customer_id = query.customer_id
    /\ Has(query, "search") =>
          \E k \in {"subject", "description", "customer_name"} :
             Includes(ToLowerCase(Content(ticket[k])), ToLowerCase(Content(query.search)))

\* The page and the limit a query asks for: 1 and 20 unless it names a number.
AskedPage(query) == ParseIntOr(query, "page", 1)
AskedLimit(query) == ParseIntOr(query, "limit", 20)

\* The elements of a list at the 0-based positions lo..hi that the list has.
AtPositions(list, lo, hi) ==
    [j \in 1..Max(Min(hi, Len(list) - 1) - Max(lo, 0) + 1, 0) |-> list[Max(lo, 0) + j]]

\* The query asking for page p.
OnPage(query, p) ==
    [k \in DOMAIN query \cup {"page"} |-> IF k = "page" THEN [int |-> p] ELSE query[k]]

\* The data of the pages p..pages of a query, one after the other.
RECURSIVE PagesFrom(_, _, _, _)
PagesFrom(storage, query, p, pages) ==
    IF p > pages THEN <<>>
    ELSE GetOutcome(storage, OnPage(query, p)).body.data
         \o PagesFrom(storage, query, p + 1, pages)

(***************************************************************************)
(* C26: GET /tickets returns the stored tickets that satisfy every filter  *)
(* of the query, in store order, cut to the positions (page-1)*limit ..    *)
(* page*limit-1 of that list: at most limit tickets, with pagination.total *)
(* the number of matching tickets and pagination.pages = ceil(total/limit),*)
(* and the pages 1..pages one after the other are the matching tickets,    *)
(* each once.                                                              *)
(***************************************************************************)
C26_GetTicketsFilteredAndPaged ==
    Listed =>
        LET Paged(matching, page, limit) ==
                /\ response.status = 200
                /\ response.body.data
                      = AtPositions(matching, (page - 1) * limit, page * limit - 1)
                /\ Len(response.body.data) <= limit
                /\ response.body.pagination.total = Len(matching)
                /\ response.body.pagination.pages * limit >= Len(matching)
                /\ (response.body.pagination.pages - 1) * limit < Len(matching)
                /\ PagesFrom(ticketsStorage, request.query, 1,
                             response.body.pagination.pages) = matching
        IN  Paged(SelectSeq(ticketsStorage, LAMBDA t : Satisfies(t, request.query)),
                  AskedPage(request.query), AskedLimit(request.query))

\* The same holds of the queries whose page and limit are at least 1.
GetTicketsPagedInRange ==
    (Listed /\ AskedPage(request.query) >= 1 /\ AskedLimit(request.query) >= 1)
        => C26_GetTicketsFilteredAndPaged


\* A body with a field the schemas refuse: a priority outside the enumeration,
\* an address that is no e-mail address.
RefusedBody(body) ==
    \/ Has(body, "priority") /\ body.priority \notin Elements(PRIORITIES)
    \/ Has(body, "customer_email") /\ ~IsEmail(body.customer_email)

\* The request creates a ticket, or updates a stored one, with a refused body.
RefusedRequest(req, storage) ==
    /\ req.op \in {"POST /tickets", "PUT /tickets/:id"}
    /\ RefusedBody(req.body)
    /\ req.op = "PUT /tickets/:id" => findById(storage, req.id) # Null

(***************************************************************************)
(* C27: a POST /tickets request, or a PUT /tickets/:id request for a       *)
(* stored ticket, whose body fails validation is answered 400 with the     *)
(* list of the field errors, which is not empty, and the store is as it    *)
(* was: no ticket more, no id given out, no field of any ticket changed,   *)
(* updated_at included.                                                    *)
(***************************************************************************)
C27_InvalidBodyLeavesStore ==
    [][ (Idle /\ RefusedRequest(request', ticketsStorage)) =>
          /\ response'.status = 400
          /\ response'.body.error = "Validation failed"
          /\ Len(response'.body.details) > 0
          /\ \A i \in 1..Len(response'.body.details) :
                DOMAIN response'.body.details[i] = {"field", "message"}
          /\ ticketsStorage' = ticketsStorage
          /\ uuidCounter' = uuidCounter ]_vars

\* A refused update of a ticket stored one tick earlier: its updated_at stays.
C27_Witness ==
    /\ request.op = "PUT /tickets/:id"
    /\ RefusedBody(request.body)
    /\ response.status = 400
    /\ findById(ticketsStorage, request.id) # Null
    /\ findById(ticketsStorage, request.id).updated_at < clock

\* A refused creation.
C27_WitnessCreate ==
    /\ request.op = "POST /tickets"
    /\ RefusedBody(request.body)
    /\ response.status = 400
    /\ Len(ticketsStorage) = 1


\* The two reasoning texts classify gives when nothing matched.
DefaultCategoryText == "No keywords matched, assigned default category"
DefaultPriorityText == "No priority indicators found, assigned default medium priority"

SystemAssigned(ticket) ==
    /\ ticket.classification # Null
    /\ ticket.classification.manual_override = FALSE

(***************************************************************************)
(* C29: in every reachable state a stored ticket whose classification      *)
(* attachment says manual_override = false has the category and the        *)
(* priority recorded in that attachment: no PUT /tickets/:id changes the   *)
(* category or priority of a ticket and leaves a differing attachment      *)
(* flagged as system-assigned.                                             *)
(***************************************************************************)
C29_SystemAssignedAgrees ==
    \A i \in 1..Len(ticketsStorage) :
        SystemAssigned(ticketsStorage[i]) =>
            /\ ticketsStorage[i].category = ticketsStorage[i].classification.category
            /\ ticketsStorage[i].priority = ticketsStorage[i].classification.priority


\* The i-th answer is the 200 of an auto-classify request for the ticket id.
AutoClassified(i, id) ==
    /\ response[i].req.op = "POST /tickets/:id/auto-classify"
    /\ response[i].req.id = id
    /\ response[i].status = 200

\* The classification without its timestamp.
Untimed(classification) ==
    [k \in (DOMAIN classification) \ {"classified_at"} |-> classification[k]]

(***************************************************************************)
(* C30: autoClassifyTicket run twice in a row on a stored ticket leaves    *)
(* what one run leaves, timestamps apart: the second run answers and       *)
(* stores the same category, priority, confidences, reasoning and          *)
(* keywords_found with manual_override = false, and the subject and the    *)
(* description of the ticket are those it had before the first run.        *)
(***************************************************************************)
C30_AutoClassifyIdempotent ==
    \A i \in 1..(Len(response) - 1) : \A id \in TicketIds :
        (AutoClassified(i, id) /\ AutoClassified(i + 1, id)) =>
            LET once == response[i].body
                twice == response[i + 1].body
            IN  /\ twice.ticket.category = once.ticket.category
                /\ twice.ticket.priority = once.ticket.priority
                /\ twice.ticket.subject = once.ticket.subject
                /\ twice.ticket.description = once.ticket.description
                /\ Untimed(twice.classification) = Untimed(once.classification)
                /\ twice.classification.manual_override = FALSE
                /\ Untimed(twice.ticket.classification) = Untimed(once.classification)

\* Two runs in a row, a tick apart, on a ticket in whose text keywords occur.
C30_Witness ==
    /\ Len(response) = 3
    /\ AutoClassified(2, response[2].req.id)
    /\ AutoClassified(3, response[2].req.id)
    /\ response[3].body.classification.classified_at
          > response[2].body.classification.classified_at
    /\ Len(response[3].body.classification.keywords_found) > 0

====
